---- MODULE Spec2Model ----
(***************************************************************************)
(* Shift-allocation engine of schedule_app (core/scheduler.py with the     *)
(* clock conversions of core/parser.py).                                   *)
(*                                                                         *)
(* One run of create_shifts_from_availability is a behaviour: validation,  *)
(* the work-study quota phase (one step per work-study worker), the greedy *)
(* phase (one step per operating-hours block, per skipped free slot and    *)
(* per carved block) and the summaries.  Decimal hours are counted in      *)
(* whole minutes, so 5.0h is 300 and the 0.5h buffer is 30; every clock    *)
(* value of the inputs is a whole minute, as "HH:MM" strings are.  A clock *)
(* string "HH:MM" is the pair <<HH, MM>>.  The random source is a          *)
(* nondeterministic choice over the outcomes it can produce.               *)
(***************************************************************************)
EXTENDS Integers, Sequences, FiniteSets, TLC

MinutesPerHour == 60

DAYS == <<"Monday", "Tuesday", "Wednesday", "Thursday", "Friday", "Saturday", "Sunday">>

Unfilled == "Unfilled"

WorkStudyQuota == 5 * MinutesPerHour

(***************************************************************************)
(* Generic list helpers (Python's sum, min, max, list concatenation and    *)
(* the stable list.sort(key=...)).                                         *)
(***************************************************************************)
Min(a, b) == IF a <= b THEN a ELSE b

Max(a, b) == IF a >= b THEN a ELSE b

Abs(a) == IF a < 0 THEN -a ELSE a

RECURSIVE SumSeq(_)
SumSeq(s) == IF s = <<>> THEN 0 ELSE Head(s) + SumSeq(Tail(s))

RECURSIVE Flatten(_)
Flatten(ss) == IF ss = <<>> THEN <<>> ELSE Head(ss) \o Flatten(Tail(ss))

RECURSIVE InsertByKey(_, _)
InsertByKey(sorted, p) ==
    IF sorted = <<>> THEN <<p>>
    ELSE IF Head(sorted).key <= p.key
         THEN <<Head(sorted)>> \o InsertByKey(Tail(sorted), p)
         ELSE <<p>> \o sorted

RECURSIVE StableSort(_)
StableSort(ps) ==
    IF ps = <<>> THEN <<>>
    ELSE InsertByKey(StableSort(SubSeq(ps, 1, Len(ps) - 1)), ps[Len(ps)])

SortedByKeyUnsorted(s, keys) == s

\* s.sort(key=...) : keys[i] is the key of s[i]; equal keys keep their order
SortedByKey(s, keys) ==
    LET ps == StableSort([i \in 1..Len(s) |-> [key |-> keys[i], val |-> s[i]]])
    IN  [i \in 1..Len(s) |-> ps[i].val]

(***************************************************************************)
(* Clock conversions.                                                      *)
(***************************************************************************)
\* parser.time_to_hour: "HH:MM" -> int(HH) + int(MM)/60
time_to_hour(t) == t[1] * MinutesPerHour + t[2]

\* scheduler.hour_to_time_str: h = int(hour), m = round((hour - h) * 60)
hour_to_time_str(hour) == <<hour \div MinutesPerHour, hour % MinutesPerHour>>

\* the bounds of an operating-hours block, the end wrapped past midnight
OpStart(op) == time_to_hour(op.start)

OpEnd(op) ==
    IF time_to_hour(op.end) <= time_to_hour(op.start)
    THEN time_to_hour(op.end) + 24 * MinutesPerHour
    ELSE time_to_hour(op.end)

overlaps(s1, e1, s2, e2) == Max(s1, s2) < Min(e1, e2)

(***************************************************************************)
(* Inputs of one run.                                                      *)
(***************************************************************************)
MaxWorkers == 2

MaxSeats == 2

ModelDays == {"Monday", "Tuesday"}

Interval(s, e) == [start_hour |-> s, end_hour |-> e]

Clock(h, m) == <<h, m>>

Block(s, e) == [start |-> s, end |-> e]

HM(h, m) == h * MinutesPerHour + m

Avail(mon, tue) == [d \in ModelDays |-> IF d = "Monday" THEN mon ELSE tue]

\* availability maps (day -> list of intervals) of the work-study workers
WorkStudyAvailabilityChoices ==
    { Avail(<<Interval(HM(9, 0), HM(14, 0))>>, <<>>),
      Avail(<<Interval(HM(9, 0), HM(12, 0))>>, <<>>),
      Avail(<<Interval(HM(9, 0), HM(12, 0))>>, <<Interval(HM(9, 0), HM(17, 0))>>),
      Avail(<<Interval(HM(9, 0), HM(13, 30))>>, <<Interval(HM(9, 0), HM(13, 30))>>),
      Avail(<<Interval(HM(9, 0), HM(12, 0)), Interval(HM(10, 0), HM(13, 0))>>, <<>>) }

\* availability maps of the regular workers
RegularAvailabilityChoices ==
    { Avail(<<Interval(HM(9, 0), HM(17, 0))>>, <<>>),
      Avail(<<Interval(HM(9, 0), HM(12, 0))>>, <<Interval(HM(9, 0), HM(17, 0))>>),
      Avail(<<Interval(HM(13, 0), HM(15, 30))>>, <<Interval(HM(22, 0), HM(26, 0))>>) }

\* hours_of_operation dicts, as the list of their (day, blocks) items
HoursChoices ==
    { <<>>,
      << [day |-> "Monday", ops |-> <<Block(Clock(9, 0), Clock(17, 0))>>] >>,
      << [day |-> "Monday", ops |-> <<Block(Clock(9, 0), Clock(12, 0))>>],
         [day |-> "Tuesday", ops |-> <<Block(Clock(9, 0), Clock(17, 0))>>] >>,
      << [day |-> "Monday", ops |-> <<Block(Clock(9, 0), Clock(13, 30))>>],
         [day |-> "Tuesday", ops |-> <<Block(Clock(9, 0), Clock(13, 30))>>] >>,
      << [day |-> "Monday", ops |-> <<Block(Clock(9, 0), Clock(12, 0)),
                                      Block(Clock(13, 0), Clock(15, 30))>>],
         [day |-> "Tuesday", ops |-> <<Block(Clock(22, 0), Clock(2, 0))>>] >> }

MaxHoursChoices == {4 * MinutesPerHour, 20 * MinutesPerHour}

DisplayNames == <<"Ada Ames", "Ben Bell", "Cy Cole", "Dee Dunn">>

WorkerKinds ==
    [work_study : {TRUE}, availability : WorkStudyAvailabilityChoices]
        \cup [work_study : {FALSE}, availability : RegularAvailabilityChoices]

\* a roster: emails are the positions 1..n (the unique key); the display
\* names "first last" are all different, or all the same
MakeWorkers(kinds, same_name) ==
    [i \in 1..Len(kinds) |->
        [email |-> i,
         name |-> IF same_name THEN DisplayNames[1] ELSE DisplayNames[i],
         work_study |-> kinds[i].work_study,
         availability |-> kinds[i].availability]]

Rosters ==
    UNION { { MakeWorkers(k, b) : k \in [1..n -> WorkerKinds], b \in BOOLEAN } :
            n \in 0..MaxWorkers }

\* min_hours_per_worker is left at its default
min_hours_per_worker == 3 * MinutesPerHour

(***************************************************************************)
(* Pure helpers of scheduler.py.                                           *)
(***************************************************************************)
is_worker_available(worker, day, shift_start, shift_end) ==
    \E i \in 1..Len(worker.availability[day]) :
        /\ worker.availability[day][i].start_hour <= shift_start
        /\ shift_end <= worker.availability[day][i].end_hour

DayList == SelectSeq(DAYS, LAMBDA d : d \in ModelDays)

calculate_availability_hours(worker) ==
    SumSeq(Flatten([k \in 1..Len(DayList) |->
        [i \in 1..Len(worker.availability[DayList[k]]) |->
            worker.availability[DayList[k]][i].end_hour
              - worker.availability[DayList[k]][i].start_hour]]))

\* the non-empty intersections of one operating-hours block with the
\* worker's availability intervals of that day, in availability order
WindowsOfBlock(worker, day, op) ==
    LET avs == worker.availability[day]
        cand == [i \in 1..Len(avs) |->
                    [day |-> day,
                     s |-> Max(OpStart(op), avs[i].start_hour),
                     e |-> Min(OpEnd(op), avs[i].end_hour)]]
    IN  SelectSeq(cand, LAMBDA c : c.e > c.s)

\* (hours_of_operation x worker availability), in dict and list order
Windows(worker, hours) ==
    Flatten([i \in 1..Len(hours) |->
        Flatten([j \in 1..Len(hours[i].ops) |->
            WindowsOfBlock(worker, hours[i].day, hours[i].ops[j])])])

Duration(w) == w.e - w.s

Piece(day, s, e, d) == [day |-> day, start |-> s, end |-> e, duration |-> d]

\* 2.8 <= duration <= 3.2 and 1.8 <= duration <= 2.2, in tenths of an hour
NearThreeHours(w) ==
    /\ 28 * MinutesPerHour <= 10 * Duration(w)
    /\ 10 * Duration(w) <= 32 * MinutesPerHour

NearTwoHours(w) ==
    /\ 18 * MinutesPerHour <= 10 * Duration(w)
    /\ 10 * Duration(w) <= 22 * MinutesPerHour

\* the loop over the windows sorted by duration
RECURSIVE TakeFromWindows(_, _, _)
TakeFromWindows(sorted_windows, remaining, prefer_split) ==
    IF sorted_windows = <<>> \/ remaining <= 0 THEN <<>>
    ELSE LET w == Head(sorted_windows)
             take == Min(Duration(w), remaining)
         IN  IF /\ prefer_split
                /\ 2 * Duration(w) >= 9 * MinutesPerHour
                /\ remaining = 5 * MinutesPerHour
             THEN << Piece(w.day, w.s, w.s + 3 * MinutesPerHour, 3 * MinutesPerHour),
                     Piece(w.day, w.s + 3 * MinutesPerHour, w.s + 5 * MinutesPerHour,
                           2 * MinutesPerHour) >>
             ELSE <<Piece(w.day, w.s, w.s + take, take)>>
                  \o TakeFromWindows(Tail(sorted_windows), remaining - take, prefer_split)

find_optimal_shift_split_whole(windows, remaining_hours, prefer_split) ==
    LET n == Len(windows)
        total_available == SumSeq([i \in 1..n |-> Duration(windows[i])])
        twos(i) == {j \in 1..n : j # i /\ NearTwoHours(windows[j])}
        threes == {i \in 1..n : NearThreeHours(windows[i]) /\ twos(i) # {}}
        i1 == CHOOSE i \in threes : \A k \in threes : i <= k
        j1 == CHOOSE j \in twos(i1) : \A k \in twos(i1) : j <= k
    IN  IF windows = <<>> \/ remaining_hours <= 0 THEN <<>>
        ELSE IF total_available < remaining_hours
        THEN [i \in 1..n |-> Piece(windows[i].day, windows[i].s, windows[i].e,
                                   Duration(windows[i]))]
        ELSE IF prefer_split /\ remaining_hours = 5 * MinutesPerHour /\ threes # {}
        THEN << Piece(windows[i1].day, windows[i1].s,
                      windows[i1].s + 3 * MinutesPerHour, 3 * MinutesPerHour),
                Piece(windows[j1].day, windows[j1].s,
                      windows[j1].s + 2 * MinutesPerHour, 2 * MinutesPerHour) >>
        ELSE TakeFromWindows(
                 SortedByKey(windows, [i \in 1..n |-> Duration(windows[i])]),
                 remaining_hours, FALSE)

find_optimal_shift_split(windows, remaining_hours, prefer_split) ==
    LET n == Len(windows)
        total_available == SumSeq([i \in 1..n |-> Duration(windows[i])])
        twos(i) == {j \in 1..n : j # i /\ NearTwoHours(windows[j])}
        threes == {i \in 1..n : NearThreeHours(windows[i]) /\ twos(i) # {}}
        i1 == CHOOSE i \in threes : \A k \in threes : i <= k
        j1 == CHOOSE j \in twos(i1) : \A k \in twos(i1) : j <= k
    IN  IF windows = <<>> \/ remaining_hours <= 0 THEN <<>>
        ELSE IF total_available < remaining_hours
        THEN [i \in 1..n |-> Piece(windows[i].day, windows[i].s, windows[i].e,
                                   Duration(windows[i]))]
        ELSE IF prefer_split /\ remaining_hours = 5 * MinutesPerHour /\ threes # {}
        THEN << Piece(windows[i1].day, windows[i1].s,
                      windows[i1].s + 3 * MinutesPerHour, 3 * MinutesPerHour),
                Piece(windows[j1].day, windows[j1].s,
                      windows[j1].s + 2 * MinutesPerHour, 2 * MinutesPerHour) >>
        ELSE TakeFromWindows(
                 SortedByKey(windows, [i \in 1..n |-> Duration(windows[i])]),
                 remaining_hours, prefer_split)

\* total overlap of a worker's availability with the operating hours
MatchingHours(worker, hours) ==
    LET ws == Windows(worker, hours)
    IN  SumSeq([i \in 1..Len(ws) |-> Duration(ws[i])])

\* the (worker, issue) pairs; the issue text carries the matching hours
check_work_study_availability(ws_list, hours) ==
    LET flagged == SelectSeq(ws_list,
                       LAMBDA w : MatchingHours(w, hours) < 5 * MinutesPerHour)
    IN  [i \in 1..Len(flagged) |->
            [name |-> flagged[i].name, kind |-> "availability",
             hours |-> MatchingHours(flagged[i], hours)]]

DaySchedule(sched, day) == SelectSeq(sched, LAMBDA s : s.day = day)

recently_scheduled_by_start(worker_email, day, shift_start, sched) ==
    \E i \in 1..Len(sched) :
        /\ sched[i].day = day
        /\ \E k \in 1..Len(sched[i].raw_assigned) : sched[i].raw_assigned[k] = worker_email
        /\ 2 * Abs(time_to_hour(sched[i].start) - shift_start) < MinutesPerHour

recently_scheduled(worker_email, day, shift_start, sched) ==
    \E i \in 1..Len(sched) :
        /\ sched[i].day = day
        /\ \E k \in 1..Len(sched[i].raw_assigned) : sched[i].raw_assigned[k] = worker_email
        /\ 2 * Abs(time_to_hour(sched[i].end) - shift_start) < MinutesPerHour

find_alternative_workers_any_hours(ws, day, start, end, hours, max_hours, already_assigned) ==
    LET alts == SelectSeq(ws, LAMBDA w :
                    /\ w.email \notin already_assigned
                    /\ is_worker_available(w, day, start, end))
    IN  SortedByKey(alts, [i \in 1..Len(alts) |-> hours[alts[i].email]])

find_alternative_workers(ws, day, start, end, hours, max_hours, already_assigned) ==
    LET alts == SelectSeq(ws, LAMBDA w :
                    /\ w.email \notin already_assigned
                    /\ is_worker_available(w, day, start, end)
                    /\ hours[w.email] + (end - start) <= max_hours)
    IN  SortedByKey(alts, [i \in 1..Len(alts) |-> hours[alts[i].email]])

(***************************************************************************)
(* State of one run of create_shifts_from_availability.                    *)
(***************************************************************************)
VARIABLES
    pc,                     \* position in the function body
    hours_of_operation,     \* argument: list of [day, ops] items
    workers,                \* argument: list of worker dicts
    max_hours_per_worker,   \* argument, in minutes
    max_workers_per_shift,  \* argument
    schedule,               \* the shift dicts in creation order, each with its day
    unfilled_shifts,
    assigned_hours,         \* email -> minutes
    ws_workers,             \* work-study workers still to place, sorted
    initial_ws_issues,
    op_queue,               \* (day, block) pairs the greedy loops still visit
    cur_day,                \* day of the block being filled
    free_slots,             \* free slots of that block still to visit
    cur,                    \* cursor in the first of these free slots
    low_hours, unassigned, ws_issues, min_hours_issues, alt_sols,
    parse_pc,               \* position of one call of parse_availability
    raw_string,             \* its argument: the comma-separated blocks
    availability,           \* its result: list of [day, intervals] items
    db,                     \* FirebaseManager.db: TRUE for a client, FALSE for None
    current_workplace_id,   \* FirebaseManager.current_workplace_id, <<>> for None
    workplaces,             \* ids of the documents of the collection 'workplaces'
    nested,                 \* workplaces/{id}/workers: id -> (document id -> data)
    flat,                   \* the collection named {id}: id -> (document id -> data)
    workplace_hours,        \* field hours_of_operation of workplaces/{id}: id -> data
    schedules,              \* workplaces/{id}/schedules: id -> (document id -> data)
    call,                   \* the last call of a FirebaseManager method
    returned,               \* and what it returned
    added,                  \* the last successful add_worker(None, w) not yet overtaken
    split_pc,               \* position of one call of find_optimal_shift_split
    split_windows,          \* its argument: the (day, start, end) windows
    split_shifts            \* its result: the (day, start, end, duration) pieces

scheduler_vars == <<pc, hours_of_operation, workers, max_hours_per_worker,
          max_workers_per_shift, schedule, unfilled_shifts, assigned_hours,
          ws_workers, initial_ws_issues, op_queue, cur_day, free_slots, cur,
          low_hours, unassigned, ws_issues, min_hours_issues, alt_sols>>

parser_vars == <<parse_pc, raw_string, availability>>

store_vars == <<db, current_workplace_id, workplaces, nested, flat, workplace_hours,
               schedules, call, returned, added>>

split_vars == <<split_pc, split_windows, split_shifts>>

vars == <<scheduler_vars, parser_vars, store_vars, split_vars>>

\* the variables a run of the scheduler never touches
elsewhere == <<parser_vars, store_vars, split_vars>>

\* no call of parse_availability is in progress
ParserIdle ==
    /\ parse_pc = "idle"
    /\ raw_string = <<>>
    /\ availability = <<>>

\* no FirebaseManager exists
StoreIdle ==
    /\ db = FALSE
    /\ current_workplace_id = <<>>
    /\ workplaces = {}
    /\ nested = <<>>
    /\ flat = <<>>
    /\ workplace_hours = <<>>
    /\ schedules = <<>>
    /\ call = [op |-> "none"]
    /\ returned = <<>>
    /\ added = [stage |-> "none"]

\* no separate call of find_optimal_shift_split is in progress
ShiftSplitIdle ==
    /\ split_pc = "idle"
    /\ split_windows = <<>>
    /\ split_shifts = <<>>

inputs == <<hours_of_operation, workers, max_hours_per_worker, max_workers_per_shift>>

summaries == <<low_hours, unassigned, ws_issues, min_hours_issues, alt_sols>>

Init ==
    /\ pc = "validate"
    /\ hours_of_operation \in HoursChoices
    /\ workers \in Rosters
    /\ max_hours_per_worker \in MaxHoursChoices
    /\ max_workers_per_shift \in 1..MaxSeats
    /\ schedule = <<>>
    /\ unfilled_shifts = <<>>
    /\ assigned_hours = <<>>
    /\ ws_workers = <<>>
    /\ initial_ws_issues = <<>>
    /\ op_queue = <<>>
    /\ cur_day = "Monday"
    /\ free_slots = <<>>
    /\ cur = 0
    /\ low_hours = <<>>
    /\ unassigned = <<>>
    /\ ws_issues = <<>>
    /\ min_hours_issues = <<>>
    /\ alt_sols = <<>>
    /\ ParserIdle
    /\ StoreIdle
    /\ ShiftSplitIdle

(***************************************************************************)
(* Validation and set-up.                                                  *)
(***************************************************************************)
NoInputHoursOnly(hours, ws) == hours = <<>>

\* "if not hours_of_operation" / "if not workers": return all-empty results
NoInput(hours, ws) == hours = <<>> \/ ws = <<>>

Validate ==
    /\ pc = "validate"
    /\ IF NoInput(hours_of_operation, workers)
       THEN /\ pc' = "done"
            /\ schedule' = <<>>
            /\ assigned_hours' = <<>>
            /\ unfilled_shifts' = <<>>
            /\ low_hours' = <<>>
            /\ unassigned' = <<>>
            /\ alt_sols' = <<>>
            /\ ws_issues' = <<>>
            /\ min_hours_issues' = <<>>
            /\ UNCHANGED <<ws_workers, initial_ws_issues>>
       ELSE LET ws == SelectSeq(workers, LAMBDA w : w.work_study)
                sorted == SortedByKey(ws,
                              [i \in 1..Len(ws) |-> calculate_availability_hours(ws[i])])
            IN  /\ pc' = "work_study"
                /\ assigned_hours' = [e \in 1..Len(workers) |-> 0]
                /\ ws_workers' = sorted
                /\ initial_ws_issues' =
                       check_work_study_availability(sorted, hours_of_operation)
                /\ UNCHANGED <<schedule, unfilled_shifts, summaries>>
    /\ UNCHANGED <<elsewhere, inputs, op_queue, cur_day, free_slots, cur>>

(***************************************************************************)
(* 1) Work-study quota phase.                                              *)
(***************************************************************************)
WorkStudyShift(w, p) ==
    [day |-> p.day,
     start |-> hour_to_time_str(p.start),
     end |-> hour_to_time_str(p.end),
     assigned |-> <<w.name>>,
     available |-> {w.name},
     raw_assigned |-> <<w.email>>,
     all_available |-> {w.email},
     is_work_study |-> TRUE]

\* the shifts already in the schedule at exactly this (day, start, end)
ExistingShifts(sched, day, slot_start, slot_end) ==
    SelectSeq(DaySchedule(sched, day),
              LAMBDA s : s.start = slot_start /\ s.end = slot_end)

SlotHasRoomOffByOne(existing_shifts, max_seats) == Len(existing_shifts) <= max_seats

\* "Enforce max_workers_per_shift"
SlotHasRoom(existing_shifts, max_seats) == Len(existing_shifts) < max_seats

RECURSIVE ApplyOptimalShiftsUnbooked(_, _, _, _, _)
ApplyOptimalShiftsUnbooked(pieces, w, sched, hours, max_seats) ==
    IF pieces = <<>> THEN [schedule |-> sched, assigned_hours |-> hours]
    ELSE LET p == Head(pieces)
             existing == ExistingShifts(sched, p.day, hour_to_time_str(p.start),
                                        hour_to_time_str(p.end))
         IN  IF SlotHasRoom(existing, max_seats)
             THEN ApplyOptimalShiftsUnbooked(Tail(pieces), w,
                      Append(sched, WorkStudyShift(w, p)), hours, max_seats)
             ELSE ApplyOptimalShiftsUnbooked(Tail(pieces), w, sched, hours, max_seats)

\* the loop that applies the optimal shifts of one work-study worker
RECURSIVE ApplyOptimalShifts(_, _, _, _, _)
ApplyOptimalShifts(pieces, w, sched, hours, max_seats) ==
    IF pieces = <<>> THEN [schedule |-> sched, assigned_hours |-> hours]
    ELSE LET p == Head(pieces)
             existing == ExistingShifts(sched, p.day, hour_to_time_str(p.start),
                                        hour_to_time_str(p.end))
         IN  IF SlotHasRoom(existing, max_seats)
             THEN ApplyOptimalShifts(Tail(pieces), w,
                      Append(sched, WorkStudyShift(w, p)),
                      [hours EXCEPT ![w.email] = @ + p.duration], max_seats)
             ELSE ApplyOptimalShifts(Tail(pieces), w, sched, hours, max_seats)

PlaceWorkStudy ==
    /\ pc = "work_study"
    /\ ws_workers # <<>>
    /\ LET w == Head(ws_workers)
           optimal_shifts ==
               find_optimal_shift_split(Windows(w, hours_of_operation),
                                        WorkStudyQuota, TRUE)
           r == ApplyOptimalShifts(optimal_shifts, w, schedule, assigned_hours,
                                   max_workers_per_shift)
       IN  /\ schedule' = r.schedule
           /\ assigned_hours' = r.assigned_hours
    /\ ws_workers' = Tail(ws_workers)
    /\ UNCHANGED <<elsewhere, pc, inputs, unfilled_shifts, initial_ws_issues, op_queue,
                   cur_day, free_slots, cur, summaries>>

(***************************************************************************)
(* 2) Greedy phase.                                                        *)
(***************************************************************************)
DayIndex(day) == CHOOSE i \in 1..Len(DAYS) : DAYS[i] = day

\* days.sort(key=DAYS.index), then "for day in days: for op in ops"
BlocksInWeekOrder(hours) ==
    LET days == SortedByKey(hours, [i \in 1..Len(hours) |-> DayIndex(hours[i].day)])
    IN  Flatten([i \in 1..Len(days) |->
            [j \in 1..Len(days[i].ops) |-> [day |-> days[i].day, op |-> days[i].ops[j]]]])

BeginGreedy ==
    /\ pc = "work_study"
    /\ ws_workers = <<>>
    /\ pc' = "greedy"
    /\ op_queue' = BlocksInWeekOrder(hours_of_operation)
    /\ UNCHANGED <<elsewhere, inputs, schedule, unfilled_shifts, assigned_hours, ws_workers,
                   initial_ws_issues, cur_day, free_slots, cur, summaries>>

CutSlotNothing(slot, s1, e1) == <<slot>>

\* what is left of one free slot once the block [s1, e1] is taken out
CutSlot(slot, s1, e1) ==
    IF slot[2] <= s1 \/ slot[1] >= e1 THEN <<slot>>
    ELSE (IF slot[1] < s1 THEN << <<slot[1], s1>> >> ELSE <<>>)
         \o (IF slot[2] > e1 THEN << <<e1, slot[2]>> >> ELSE <<>>)

RECURSIVE SubtractBlocks(_, _)
SubtractBlocks(free, blks) ==
    IF blks = <<>> THEN free
    ELSE SubtractBlocks(
             Flatten([i \in 1..Len(free) |->
                 CutSlot(free[i], time_to_hour(Head(blks).start),
                         time_to_hour(Head(blks).end))]),
             Tail(blks))

FreeSlotsNone(op, day, sched) == <<>>

\* the free slots of a block, shortest first
FreeSlots(op, day, sched) ==
    LET free == SubtractBlocks(<< <<OpStart(op), OpEnd(op)>> >>, DaySchedule(sched, day))
    IN  SortedByKey(free, [i \in 1..Len(free) |-> free[i][2] - free[i][1]])

NextBlock ==
    /\ pc = "greedy"
    /\ free_slots = <<>>
    /\ op_queue # <<>>
    /\ LET fs == FreeSlots(Head(op_queue).op, Head(op_queue).day, schedule)
       IN  /\ free_slots' = fs
           /\ cur' = IF fs = <<>> THEN 0 ELSE fs[1][1]
    /\ cur_day' = Head(op_queue).day
    /\ op_queue' = Tail(op_queue)
    /\ UNCHANGED <<elsewhere, pc, inputs, schedule, unfilled_shifts, assigned_hours,
                   ws_workers, initial_ws_issues, summaries>>

\* leaving the first free slot: the cursor moves to the start of the next
LeaveSlot ==
    /\ free_slots' = Tail(free_slots)
    /\ cur' = IF Len(free_slots) > 1 THEN free_slots[2][1] ELSE 0

\* "if (e0 - s0) < 2: continue"
SkipSlot ==
    /\ pc = "greedy"
    /\ free_slots # <<>>
    /\ free_slots[1][2] - free_slots[1][1] < 2 * MinutesPerHour
    /\ LeaveSlot
    /\ UNCHANGED <<elsewhere, pc, inputs, schedule, unfilled_shifts, assigned_hours,
                   ws_workers, initial_ws_issues, op_queue, cur_day, summaries>>

shift_lengths == {2, 3, 4, 5}

SlotLengthsFromOne(s0, e0) ==
    LET fit == {l \in shift_lengths \cup {1} : l * MinutesPerHour <= e0 - s0}
    IN  IF fit = {} THEN {2} ELSE fit

\* "lengths = [l for l in shift_lengths if l <= (e0 - s0)] or [2]"
SlotLengths(s0, e0) ==
    LET fit == {l \in shift_lengths : l * MinutesPerHour <= e0 - s0}
    IN  IF fit = {} THEN {2} ELSE fit

LengthOutcomesNoProgress(lengths, start, e0) == {0}

\* after random.shuffle(lengths), "next((l for l in lengths if cur + l <= e0),
\* lengths[0])" can be any length that fits, or any length when none fits
LengthOutcomes(lengths, start, e0) ==
    LET fitting == {l \in lengths : start + l * MinutesPerHour <= e0}
    IN  IF fitting # {} THEN fitting ELSE lengths

EligibleAtZeroHours(x, day, start, end_shift, sched, hours, max_hours) ==
    /\ ~(x.work_study /\ hours[x.email] >= 5 * MinutesPerHour)
    /\ ~recently_scheduled(x.email, day, start, sched)
    /\ is_worker_available(x, day, start, end_shift)
    /\ hours[x.email] + (end_shift - start) <= max_hours

\* the test that puts worker x into avail for the block [start, end_shift]
Eligible(x, day, start, end_shift, sched, hours, max_hours) ==
    /\ ~(x.work_study /\ hours[x.email] >= 5 * MinutesPerHour)
    /\ ~(x.work_study /\ hours[x.email] = 0)
    /\ ~recently_scheduled(x.email, day, start, sched)
    /\ is_worker_available(x, day, start, end_shift)
    /\ hours[x.email] + (end_shift - start) <= max_hours

FairnessLeqByHours(a, b, hours, ws) == hours[a] <= hours[b]

\* fairness_score(a) <= fairness_score(b), the ratios compared exactly
FairnessLeq(a, b, hours, ws) ==
    hours[a] * Max(calculate_availability_hours(ws[b]), MinutesPerHour)
        <= hours[b] * Max(calculate_availability_hours(ws[a]), MinutesPerHour)

\* avail.sort(key=fairness_score); chosen = avail[:k] : every prefix of an
\* ascending order of the ratios, ties in any order (the random component)
ChosenOutcomes(avail, k, hours, ws) ==
    {c \in [1..k -> avail] :
        /\ \A i, j \in 1..k : i < j => c[i] # c[j] /\ FairnessLeq(c[i], c[j], hours, ws)
        /\ \A e \in avail : (\A i \in 1..k : c[i] # e) =>
               \A i \in 1..k : FairnessLeq(c[i], e, hours, ws)}

GreedyShift(day, start, end_shift, assignee, raw, avail, ws) ==
    [day |-> day,
     start |-> hour_to_time_str(start),
     end |-> hour_to_time_str(end_shift),
     assigned |-> <<assignee>>,
     available |-> {ws[e].name : e \in avail},
     raw_assigned |-> raw,
     all_available |-> avail,
     is_work_study |-> FALSE]

UnfilledRecordNoEnd(day, start, end_shift) ==
    [day |-> day,
     start |-> hour_to_time_str(start),
     end |-> hour_to_time_str(start),
     start_hour |-> start,
     end_hour |-> start]

UnfilledRecord(day, start, end_shift) ==
    [day |-> day,
     start |-> hour_to_time_str(start),
     end |-> hour_to_time_str(end_shift),
     start_hour |-> start,
     end_hour |-> end_shift]

\* one iteration of "while cur < e0"
CarveShift ==
    /\ pc = "greedy"
    /\ free_slots # <<>>
    /\ free_slots[1][2] - free_slots[1][1] >= 2 * MinutesPerHour
    /\ LET s0 == free_slots[1][1]
           e0 == free_slots[1][2]
       IN  \E length \in LengthOutcomes(SlotLengths(s0, e0), cur, e0) :
             LET end_shift == Min(cur + length * MinutesPerHour, e0)
                 shift_duration == end_shift - cur
                 avail == {e \in 1..Len(workers) :
                              Eligible(workers[e], cur_day, cur, end_shift, schedule,
                                       assigned_hours, max_hours_per_worker)}
                 k == Min(max_workers_per_shift, Cardinality(avail))
                 seats == max_workers_per_shift - k
             IN  \E chosen \in ChosenOutcomes(avail, k, assigned_hours, workers) :
                   /\ assigned_hours' =
                          [e \in DOMAIN assigned_hours |->
                              IF \E i \in 1..k : chosen[i] = e
                              THEN assigned_hours[e] + shift_duration
                              ELSE assigned_hours[e]]
                   /\ schedule' = schedule
                          \o [i \in 1..k |->
                                 GreedyShift(cur_day, cur, end_shift,
                                             workers[chosen[i]].name,
                                             <<chosen[i]>>, avail, workers)]
                          \o [i \in 1..seats |->
                                 GreedyShift(cur_day, cur, end_shift, Unfilled,
                                             <<>>, avail, workers)]
                   /\ unfilled_shifts' = unfilled_shifts
                          \o [i \in 1..seats |-> UnfilledRecord(cur_day, cur, end_shift)]
                   /\ IF end_shift < e0
                      THEN cur' = end_shift /\ UNCHANGED free_slots
                      ELSE LeaveSlot
    /\ UNCHANGED <<elsewhere, pc, inputs, ws_workers, initial_ws_issues, op_queue, cur_day,
                   summaries>>

(***************************************************************************)
(* 3) Summaries.                                                           *)
(***************************************************************************)
NamesOf(ws) == [i \in 1..Len(ws) |-> ws[i].name]

LowHoursAtMostFour(ws, hours) ==
    NamesOf(SelectSeq(ws, LAMBDA w :
        ~w.work_study /\ hours[w.email] <= 4 * MinutesPerHour))

LowHours(ws, hours) ==
    NamesOf(SelectSeq(ws, LAMBDA w :
        ~w.work_study /\ hours[w.email] < 4 * MinutesPerHour))

Unassigned(ws, hours) ==
    NamesOf(SelectSeq(ws, LAMBDA w : hours[w.email] = 0))

\* the final check: work-study workers whose hours are not 5 and whose name
\* does not start one of the initial issues
FinalWsIssues(initial, ws, hours) ==
    LET late == SelectSeq(ws, LAMBDA w :
                    /\ w.work_study
                    /\ hours[w.email] # 5 * MinutesPerHour
                    /\ \A i \in 1..Len(initial) : initial[i].name # w.name)
    IN  [i \in 1..Len(late) |->
            [name |-> late[i].name, kind |-> "final", hours |-> hours[late[i].email]]]

WsIssuesOnlyFinal(initial, ws, hours) == FinalWsIssues(initial, ws, hours)

WsIssues(initial, ws, hours) == initial \o FinalWsIssues(initial, ws, hours)

MinHoursIssues(ws, hours, min_hours) ==
    NamesOf(SelectSeq(ws, LAMBDA w : ~w.work_study /\ hours[w.email] < min_hours))

\* the key "{day} {start}-{end}"
AltKey(us) == <<us.day, us.start, us.end>>

AltSolsNormalCap(unfilled, ws, hours, max_hours) ==
    LET sols(i) == find_alternative_workers(ws, unfilled[i].day,
                       unfilled[i].start_hour, unfilled[i].end_hour, hours,
                       max_hours, {})
        kept == {i \in 1..Len(unfilled) : sols(i) # <<>>}
        last(key) == CHOOSE i \in kept :
                         /\ AltKey(unfilled[i]) = key
                         /\ \A j \in kept : AltKey(unfilled[j]) = key => j <= i
    IN  [key \in {AltKey(unfilled[i]) : i \in kept} |-> NamesOf(sols(last(key)))]

AltSols(unfilled, ws, hours, max_hours) ==
    LET sols(i) == find_alternative_workers(ws, unfilled[i].day,
                       unfilled[i].start_hour, unfilled[i].end_hour, hours,
                       (max_hours * 3) \div 2, {})
        kept == {i \in 1..Len(unfilled) : sols(i) # <<>>}
        last(key) == CHOOSE i \in kept :
                         /\ AltKey(unfilled[i]) = key
                         /\ \A j \in kept : AltKey(unfilled[j]) = key => j <= i
    IN  [key \in {AltKey(unfilled[i]) : i \in kept} |-> NamesOf(sols(last(key)))]

BuildSummaries ==
    /\ pc = "greedy"
    /\ free_slots = <<>>
    /\ op_queue = <<>>
    /\ pc' = "done"
    /\ low_hours' = LowHours(workers, assigned_hours)
    /\ unassigned' = Unassigned(workers, assigned_hours)
    /\ ws_issues' = WsIssues(initial_ws_issues, workers, assigned_hours)
    /\ min_hours_issues' = MinHoursIssues(workers, assigned_hours, min_hours_per_worker)
    /\ alt_sols' = AltSols(unfilled_shifts, workers, assigned_hours, max_hours_per_worker)
    /\ UNCHANGED <<elsewhere, inputs, schedule, unfilled_shifts, assigned_hours, ws_workers,
                   initial_ws_issues, op_queue, cur_day, free_slots, cur>>

Next ==
    \/ Validate
    \/ PlaceWorkStudy
    \/ BeginGreedy
    \/ NextBlock
    \/ SkipSlot
    \/ CarveShift
    \/ BuildSummaries

Spec == Init /\ [][Next]_vars

(***************************************************************************)
(* Runs on workers whose availability of one day is given as two intervals *)
(* that touch, in a week whose Tuesday block is wanted by two work-study   *)
(* workers and whose Monday has two operating-hours blocks that overlap.   *)
(***************************************************************************)
SplitDayHours ==
    << [day |-> "Monday", ops |-> <<Block(Clock(8, 0), Clock(17, 0)),
                                    Block(Clock(16, 0), Clock(19, 0))>>],
       [day |-> "Tuesday", ops |-> <<Block(Clock(9, 0), Clock(13, 0))>>] >>

SplitDayKinds ==
    { [work_study |-> TRUE,
       availability |-> Avail(<<>>, <<Interval(HM(9, 0), HM(12, 0))>>)],
      [work_study |-> TRUE,
       availability |-> Avail(<<Interval(HM(12, 0), HM(14, 0)),
                                Interval(HM(8, 0), HM(12, 0))>>,
                              <<Interval(HM(9, 0), HM(12, 0))>>)],
      [work_study |-> FALSE,
       availability |-> Avail(<<Interval(HM(8, 0), HM(17, 0))>>,
                              <<Interval(HM(9, 0), HM(13, 0))>>)],
      [work_study |-> FALSE,
       availability |-> Avail(<<Interval(HM(8, 0), HM(10, 0))>>,
                              <<Interval(HM(9, 0), HM(13, 0))>>)] }

SplitDayRosters ==
    UNION { { MakeWorkers(k, b) : k \in [1..n -> SplitDayKinds], b \in BOOLEAN } :
            n \in 0..MaxWorkers }

SplitDayInit ==
    /\ pc = "validate"
    /\ hours_of_operation = SplitDayHours
    /\ workers \in SplitDayRosters
    /\ max_hours_per_worker \in MaxHoursChoices
    /\ max_workers_per_shift \in 1..MaxSeats
    /\ schedule = <<>>
    /\ unfilled_shifts = <<>>
    /\ assigned_hours = <<>>
    /\ ws_workers = <<>>
    /\ initial_ws_issues = <<>>
    /\ op_queue = <<>>
    /\ cur_day = "Monday"
    /\ free_slots = <<>>
    /\ cur = 0
    /\ low_hours = <<>>
    /\ unassigned = <<>>
    /\ ws_issues = <<>>
    /\ min_hours_issues = <<>>
    /\ alt_sols = <<>>
    /\ ParserIdle
    /\ StoreIdle
    /\ ShiftSplitIdle

SplitDaySpec == SplitDayInit /\ [][Next]_vars

(***************************************************************************)
(* parser.parse_availability.  A text is the list of its characters; a     *)
(* block of the raw string is its day word, the number of blanks after it  *)
(* and the digits of its two clock strings.                                *)
(***************************************************************************)
MaxBlocks == 3

\* str.lower() on the letters the day words are written with
LowerChar(c) ==
    CASE c = "M" -> "m" [] c = "O" -> "o" [] c = "N" -> "n" [] c = "T" -> "t"
      [] c = "U" -> "u" [] c = "E" -> "e" [] c = "F" -> "f" [] OTHER -> c

lower(word) == [i \in 1..Len(word) |-> LowerChar(word[i])]

day_map ==
    { << <<"s", "u", "n", "d", "a", "y">>, "Sunday" >>,
      << <<"s", "u", "n">>, "Sunday" >>,
      << <<"m", "o", "n", "d", "a", "y">>, "Monday" >>,
      << <<"m", "o", "n">>, "Monday" >>,
      << <<"t", "u", "e", "s", "d", "a", "y">>, "Tuesday" >>,
      << <<"t", "u", "e">>, "Tuesday" >>,
      << <<"w", "e", "d", "n", "e", "s", "d", "a", "y">>, "Wednesday" >>,
      << <<"w", "e", "d">>, "Wednesday" >>,
      << <<"t", "h", "u", "r", "s", "d", "a", "y">>, "Thursday" >>,
      << <<"t", "h", "u">>, "Thursday" >>,
      << <<"f", "r", "i", "d", "a", "y">>, "Friday" >>,
      << <<"f", "r", "i">>, "Friday" >>,
      << <<"s", "a", "t", "u", "r", "d", "a", "y">>, "Saturday" >>,
      << <<"s", "a", "t">>, "Saturday" >> }

NoDay == ""

\* day_map.get(day_raw.lower())
DayOf(word) ==
    IF \E p \in day_map : p[1] = lower(word)
    THEN (CHOOSE p \in day_map : p[1] = lower(word))[2]
    ELSE NoDay

\* int() of a string of decimal digits
RECURSIVE DigitsValue(_)
DigitsValue(ds) ==
    IF ds = <<>> THEN 0 ELSE 10 * DigitsValue(SubSeq(ds, 1, Len(ds) - 1)) + ds[Len(ds)]

ClockText(h, m) == [h |-> h, m |-> m]

RawBlock(word, blanks, start, end) ==
    [word |-> word, blanks |-> blanks, start |-> start, end |-> end]

\* re.match(r'(\w+)\s+(\d{1,2}:\d{2})-(\d{1,2}:\d{2})', block.strip()): the
\* match is anchored at the start only, so the second clock may be followed
\* by more digits; they are not part of the group
Matches(block) ==
    /\ Len(block.word) >= 1
    /\ block.blanks >= 1
    /\ Len(block.start.h) \in 1..2
    /\ Len(block.start.m) = 2
    /\ Len(block.end.h) \in 1..2
    /\ Len(block.end.m) >= 2

StartGroup(block) == block.start

EndGroup(block) == ClockText(block.end.h, SubSeq(block.end.m, 1, 2))

\* the "HH:MM" text as the pair time_to_hour splits it into
ClockOf(text) == <<DigitsValue(text.h), DigitsValue(text.m)>>

ParsedIntervalNoWrap(block) ==
    LET sh == time_to_hour(ClockOf(StartGroup(block)))
        eh == time_to_hour(ClockOf(EndGroup(block)))
    IN  [start |-> StartGroup(block),
         end |-> EndGroup(block),
         start_hour |-> sh,
         end_hour |-> IF eh < sh THEN eh + 24 * MinutesPerHour ELSE eh]

ParsedInterval(block) ==
    LET sh == time_to_hour(ClockOf(StartGroup(block)))
        eh == time_to_hour(ClockOf(EndGroup(block)))
    IN  [start |-> StartGroup(block),
         end |-> EndGroup(block),
         start_hour |-> sh,
         end_hour |-> IF eh <= sh THEN eh + 24 * MinutesPerHour ELSE eh]

\* availability.setdefault(day, []).append(interval)
AppendForDay(items, day, interval) ==
    IF \E i \in 1..Len(items) : items[i].day = day
    THEN [i \in 1..Len(items) |->
             IF items[i].day = day
             THEN [day |-> day, intervals |-> Append(items[i].intervals, interval)]
             ELSE items[i]]
    ELSE Append(items, [day |-> day, intervals |-> <<interval>>])

\* the loop over the blocks; the dict is the list of its (day, list) items
RECURSIVE parse_availability(_)
parse_availability(blocks) ==
    IF blocks = <<>> THEN <<>>
    ELSE LET before == parse_availability(SubSeq(blocks, 1, Len(blocks) - 1))
             block == blocks[Len(blocks)]
         IN  IF ~Matches(block) \/ DayOf(block.word) = NoDay
             THEN before
             ELSE AppendForDay(before, DayOf(block.word), ParsedInterval(block))

\* "Monday", "MON", "tue", "Funday" and the empty word
DayWords ==
    << <<"M", "o", "n", "d", "a", "y">>, <<"M", "O", "N">>, <<"t", "u", "e">>,
       <<"F", "u", "n", "d", "a", "y">>, <<>> >>

\* the blocks a raw string is made of
RawBlocks ==
    { RawBlock(DayWords[1], 1, ClockText(<<0, 9>>, <<0, 0>>), ClockText(<<1, 7>>, <<0, 0>>)),
      RawBlock(DayWords[3], 1, ClockText(<<1, 8>>, <<0, 0>>), ClockText(<<0, 2>>, <<0, 0>>)),
      RawBlock(DayWords[2], 2, ClockText(<<9>>, <<0, 0>>), ClockText(<<1, 2>>, <<3, 0>>)),
      RawBlock(DayWords[1], 1, ClockText(<<1, 3>>, <<0, 0>>), ClockText(<<1, 3>>, <<0, 0>>)),
      RawBlock(DayWords[4], 1, ClockText(<<0, 9>>, <<0, 0>>), ClockText(<<1, 7>>, <<0, 0>>)),
      RawBlock(DayWords[1], 1, ClockText(<<0, 9>>, <<0, 0>>), ClockText(<<>>, <<>>)),
      RawBlock(DayWords[3], 1, ClockText(<<2, 5>>, <<0, 0>>), ClockText(<<0, 0>>, <<3, 0>>)),
      RawBlock(DayWords[1], 1, ClockText(<<0, 0>>, <<0, 0>>), ClockText(<<3, 0>>, <<0, 0>>)),
      RawBlock(DayWords[1], 0, ClockText(<<9>>, <<0, 0>>), ClockText(<<1, 7>>, <<0, 0>>)),
      RawBlock(DayWords[3], 1, ClockText(<<1, 2>>, <<0>>), ClockText(<<1, 3>>, <<0, 0>>)),
      RawBlock(DayWords[5], 1, ClockText(<<0, 9>>, <<0, 0>>), ClockText(<<1, 7>>, <<0, 0>>)),
      RawBlock(DayWords[3], 1, ClockText(<<0, 9>>, <<0, 0>>), ClockText(<<1, 7>>, <<0, 0, 5>>)) }

RawStrings == UNION { [1..n -> RawBlocks] : n \in 0..MaxBlocks }

\* no run of the scheduler is in progress
SchedulerIdle ==
    /\ pc = "idle"
    /\ hours_of_operation = <<>>
    /\ workers = <<>>
    /\ max_hours_per_worker = 0
    /\ max_workers_per_shift = 0
    /\ schedule = <<>>
    /\ unfilled_shifts = <<>>
    /\ assigned_hours = <<>>
    /\ ws_workers = <<>>
    /\ initial_ws_issues = <<>>
    /\ op_queue = <<>>
    /\ cur_day = "Monday"
    /\ free_slots = <<>>
    /\ cur = 0
    /\ low_hours = <<>>
    /\ unassigned = <<>>
    /\ ws_issues = <<>>
    /\ min_hours_issues = <<>>
    /\ alt_sols = <<>>

ParserInit ==
    /\ parse_pc = "call"
    /\ raw_string \in RawStrings
    /\ availability = <<>>
    /\ SchedulerIdle
    /\ StoreIdle
    /\ ShiftSplitIdle

ParseAvailability ==
    /\ parse_pc = "call"
    /\ parse_pc' = "return"
    /\ availability' = parse_availability(raw_string)
    /\ UNCHANGED <<raw_string, scheduler_vars, store_vars, split_vars>>

ParserNext == ParseAvailability

ParserSpec == ParserInit /\ [][ParserNext]_vars

(***************************************************************************)
(* The worker store: FirebaseManager over a Firestore database.  A         *)
(* collection is a function from document ids to document data; a missing  *)
(* collection is the empty one.  The timestamps of the documents are left  *)
(* out.                                                                    *)
(***************************************************************************)
MaxDocs == 2

\* the ids Firestore generates for added documents
AutoIds == <<"d1", "d2", "d3", "d4">>

AutoIdSet == {AutoIds[i] : i \in 1..MaxDocs}

MetadataId == "_metadata"

\* None as a workplace id, and None as the id add_worker returns on failure
NoWorkplace == <<>>

NoId == ""

\* "E T" and "e_t", two spellings of one workplace
WorkplaceNames == { <<"E", " ", "T">>, <<"e", "_", "t">> }

\* workplace_id.lower().replace(' ', '_')
normalize_workplace_id(workplace_id) ==
    [i \in 1..Len(workplace_id) |->
        IF workplace_id[i] = " " THEN "_" ELSE LowerChar(workplace_id[i])]

Docs(collections, id) == IF id \in DOMAIN collections THEN collections[id] ELSE <<>>

\* document(doc_id).set(data) / add(data) in the collection of id
Put(collections, id, doc_id, data) ==
    [w \in DOMAIN collections \cup {id} |->
        IF w = id
        THEN [d \in DOMAIN Docs(collections, id) \cup {doc_id} |->
                 IF d = doc_id THEN data ELSE Docs(collections, id)[d]]
        ELSE collections[w]]

DeletedFromNothing(collections, id, doc_id) == collections

\* document(doc_id).delete() in the collection of id; no error when absent
DeletedFrom(collections, id, doc_id) ==
    [w \in DOMAIN collections |->
        IF w = id
        THEN [d \in DOMAIN collections[w] \ {doc_id} |-> collections[w][d]]
        ELSE collections[w]]

\* the document ensure_workers_collection_exists creates
MetadataDoc == ("count" :> 0)

\* the worker dicts handed to add_worker
WorkerData ==
    { [first_name |-> "Test", last_name |-> "Worker", email |-> "test@x",
       work_study |-> TRUE,
       availability_text |->
           << RawBlock(DayWords[1], 1, ClockText(<<0, 9>>, <<0, 0>>),
                       ClockText(<<1, 7>>, <<0, 0>>)) >>],
      [first_name |-> "Ada", last_name |-> "Ames", email |-> "ada@x",
       work_study |-> FALSE, availability_text |-> <<>>] }

FirebaseUtils_map_worker_to_firebase(worker_data) ==
    ("First Name" :> worker_data.first_name)
        @@ ("Last Name" :> worker_data.last_name)
        @@ ("Email" :> worker_data.email)
        @@ ("Work Study" :> IF worker_data.work_study THEN "Yes" ELSE "No")
        @@ ("Days & Times Available" :> worker_data.availability_text)

\* firebase_worker.get(key, default)
FieldOr(firebase_worker, key, default) ==
    IF key \in DOMAIN firebase_worker THEN firebase_worker[key] ELSE default

\* str.lower() on the Work Study texts
LowerYesNo(text) == CASE text = "Yes" -> "yes" [] text = "No" -> "no" [] OTHER -> text

\* doc.to_dict() with worker_data["id"] = doc.id, mapped to the app format
FirebaseUtils_map_worker_from_firebase(firebase_worker, doc_id) ==
    [first_name |-> FieldOr(firebase_worker, "First Name", ""),
     last_name |-> FieldOr(firebase_worker, "Last Name", ""),
     email |-> FieldOr(firebase_worker, "Email", ""),
     work_study |-> LowerYesNo(FieldOr(firebase_worker, "Work Study", ""))
                        \in {"yes", "y", "true"},
     availability_text |-> FieldOr(firebase_worker, "Days & Times Available", <<>>),
     availability |->
         IF FieldOr(firebase_worker, "Days & Times Available", <<>>) # <<>>
         THEN parse_availability(FieldOr(firebase_worker, "Days & Times Available", <<>>))
         ELSE <<>>,
     id |-> doc_id]

\* "nested" when workplaces/{id}/workers has a document, else "flat"
get_worker_collection_ref(id) ==
    IF DOMAIN Docs(nested, id) # {} THEN "nested" ELSE "flat"

WorkersRef(id) ==
    IF get_worker_collection_ref(id) = "nested" THEN Docs(nested, id) ELSE Docs(flat, id)

HoursDocId == "hours_of_operation"

CurrentScheduleId == "current_schedule"

\* the order in which stream() yields the documents of a collection: by
\* document id
StreamOrder == <<MetadataId, CurrentScheduleId>> \o AutoIds \o <<HoursDocId>>

\* "if not workplace_id: ... workplace_id = self.current_workplace_id"
TargetWorkplace(workplace_id) ==
    normalize_workplace_id(
        IF workplace_id = NoWorkplace THEN current_workplace_id ELSE workplace_id)

\* the call cannot proceed: no database, or no workplace given or current
Refused(workplace_id) ==
    ~db \/ (workplace_id = NoWorkplace /\ current_workplace_id = NoWorkplace)

get_workers(workplace_id) ==
    IF Refused(workplace_id) THEN <<>>
    ELSE LET ref == WorkersRef(TargetWorkplace(workplace_id))
             ids == SelectSeq(StreamOrder, LAMBDA d : d \in DOMAIN ref)
         IN  [i \in 1..Len(ids) |->
                 FirebaseUtils_map_worker_from_firebase(ref[ids[i]], ids[i])]

\* the workplace_id argument of the worker methods: None or "E T"
WorkplaceArgs == {NoWorkplace, <<"E", " ", "T">>}

NoCall == [op |-> "none"]

NothingAdded == [stage |-> "none"]

\* a Firestore that is empty, or that holds one worker in the flat
\* collection "e_t"
StoredBefore ==
    { <<>>,
      Put(<<>>, <<"e", "_", "t">>, AutoIds[1],
          FirebaseUtils_map_worker_to_firebase(
              [first_name |-> "Ada", last_name |-> "Ames", email |-> "ada@x",
               work_study |-> FALSE, availability_text |-> <<>>])) }

StoreInit ==
    /\ db \in BOOLEAN
    /\ current_workplace_id = NoWorkplace
    /\ workplaces = {}
    /\ nested = <<>>
    /\ flat \in StoredBefore
    /\ workplace_hours = <<>>
    /\ schedules = <<>>
    /\ call = NoCall
    /\ returned = <<>>
    /\ added = NothingAdded
    /\ SchedulerIdle
    /\ ParserIdle
    /\ ShiftSplitIdle

set_workplace(workplace_id) ==
    /\ call' = [op |-> "set_workplace", workplace_id |-> workplace_id]
    /\ added' = NothingAdded
    /\ IF ~db
       THEN /\ returned' = FALSE
            /\ UNCHANGED <<current_workplace_id, workplaces, nested>>
       ELSE LET id == normalize_workplace_id(workplace_id)
            IN  /\ workplaces' = workplaces \cup {id}
                /\ nested' = IF MetadataId \in DOMAIN Docs(nested, id)
                             THEN nested
                             ELSE Put(nested, id, MetadataId, MetadataDoc)
                /\ current_workplace_id' = id
                /\ returned' = TRUE
    /\ UNCHANGED <<db, flat, workplace_hours, schedules, scheduler_vars, parser_vars,
                   split_vars>>

GetWorkers(workplace_id) ==
    /\ call' = [op |-> "get_workers", workplace_id |-> workplace_id]
    /\ returned' = get_workers(workplace_id)
    /\ UNCHANGED <<db, current_workplace_id, workplaces, nested, flat, added,
                   workplace_hours, schedules,
                   scheduler_vars, parser_vars, split_vars>>

add_worker(workplace_id, worker_data) ==
    /\ call' = [op |-> "add_worker", workplace_id |-> workplace_id]
    /\ IF Refused(workplace_id)
       THEN /\ returned' = NoId
            /\ added' = NothingAdded
            /\ UNCHANGED <<nested, flat>>
       ELSE LET id == TargetWorkplace(workplace_id)
            IN  \E worker_id \in AutoIdSet \ DOMAIN WorkersRef(id) :
                  /\ IF get_worker_collection_ref(id) = "nested"
                     THEN /\ nested' = Put(nested, id, worker_id,
                                 FirebaseUtils_map_worker_to_firebase(worker_data))
                          /\ UNCHANGED flat
                     ELSE /\ flat' = Put(flat, id, worker_id,
                                 FirebaseUtils_map_worker_to_firebase(worker_data))
                          /\ UNCHANGED nested
                  /\ returned' = worker_id
                  /\ added' = IF workplace_id = NoWorkplace
                              THEN [stage |-> "added", id |-> worker_id,
                                    email |-> worker_data.email,
                                    count_before |-> Len(get_workers(NoWorkplace))]
                              ELSE NothingAdded
    /\ UNCHANGED <<db, current_workplace_id, workplaces, workplace_hours, schedules,
                   scheduler_vars, parser_vars, split_vars>>

delete_worker(workplace_id, worker_id) ==
    /\ call' = [op |-> "delete_worker", workplace_id |-> workplace_id]
    /\ IF Refused(workplace_id)
       THEN /\ returned' = FALSE
            /\ added' = NothingAdded
            /\ UNCHANGED <<nested, flat>>
       ELSE LET id == TargetWorkplace(workplace_id)
            IN  /\ IF get_worker_collection_ref(id) = "nested"
                   THEN /\ nested' = DeletedFrom(nested, id, worker_id)
                        /\ UNCHANGED flat
                   ELSE /\ flat' = DeletedFrom(flat, id, worker_id)
                        /\ UNCHANGED nested
                /\ returned' = TRUE
                /\ added' = IF /\ added.stage = "added"
                               /\ workplace_id = NoWorkplace
                               /\ worker_id = added.id
                            THEN [added EXCEPT !.stage = "deleted"]
                            ELSE NothingAdded
    /\ UNCHANGED <<db, current_workplace_id, workplaces, workplace_hours, schedules,
                   scheduler_vars, parser_vars, split_vars>>

\* every document of the collection of id is deleted
Emptied(collections, id) ==
    [w \in DOMAIN collections |-> IF w = id THEN <<>> ELSE collections[w]]

remove_all_workers(workplace_id) ==
    /\ call' = [op |-> "remove_all_workers", workplace_id |-> workplace_id]
    /\ added' = NothingAdded
    /\ IF Refused(workplace_id)
       THEN /\ returned' = 0
            /\ UNCHANGED <<nested, flat>>
       ELSE LET id == TargetWorkplace(workplace_id)
            IN  /\ returned' = Cardinality(DOMAIN WorkersRef(id))
                /\ IF get_worker_collection_ref(id) = "nested"
                   THEN /\ nested' = Emptied(nested, id)
                        /\ UNCHANGED flat
                   ELSE /\ flat' = Emptied(flat, id)
                        /\ UNCHANGED nested
    /\ UNCHANGED <<db, current_workplace_id, workplaces, workplace_hours, schedules,
                   scheduler_vars, parser_vars, split_vars>>

\* the hours_data handed to update_hours_of_operation
HoursData == ("Monday" :> <<Block(Clock(9, 0), Clock(17, 0))>>)

update_hours_of_operation(workplace_id, hours_data) ==
    /\ call' = [op |-> "update_hours_of_operation", workplace_id |-> workplace_id]
    /\ added' = NothingAdded
    /\ IF Refused(workplace_id)
       THEN /\ returned' = FALSE
            /\ UNCHANGED <<workplaces, workplace_hours, flat>>
       ELSE LET id == TargetWorkplace(workplace_id)
            IN  /\ workplaces' = workplaces \cup {id}
                /\ workplace_hours' =
                       [w \in DOMAIN workplace_hours \cup {id} |->
                           IF w = id THEN hours_data ELSE workplace_hours[w]]
                /\ flat' = Put(flat, id, HoursDocId, hours_data)
                /\ returned' = TRUE
    /\ UNCHANGED <<db, current_workplace_id, nested, schedules, scheduler_vars,
                   parser_vars, split_vars>>

MaxSchedules == 1

\* the ids Firestore generates for the documents of a schedules collection
ScheduleIdSet == {AutoIds[i] : i \in 1..MaxSchedules}

\* the schedule_data handed to save_schedule
ScheduleData == ("Monday" :> <<>>)

\* schedule_data with the workplace_id it is given when it has none; the
\* name is left out with the timestamps, for it holds the date
SavedSchedule(schedule_data, id) ==
    IF "workplace_id" \in DOMAIN schedule_data
    THEN schedule_data
    ELSE schedule_data @@ ("workplace_id" :> id)

save_schedule(workplace_id, schedule_data) ==
    /\ call' = [op |-> "save_schedule", workplace_id |-> workplace_id]
    /\ added' = NothingAdded
    /\ IF Refused(workplace_id)
       THEN /\ returned' = NoId
            /\ UNCHANGED <<schedules, flat>>
       ELSE LET id == TargetWorkplace(workplace_id)
            IN  \E schedule_id \in ScheduleIdSet \ DOMAIN Docs(schedules, id) :
                  /\ schedules' = Put(schedules, id, schedule_id,
                                      SavedSchedule(schedule_data, id))
                  /\ flat' = Put(flat, id, CurrentScheduleId,
                                 SavedSchedule(schedule_data, id))
                  /\ returned' = schedule_id
    /\ UNCHANGED <<db, current_workplace_id, workplaces, nested, workplace_hours,
                   scheduler_vars, parser_vars, split_vars>>

StoreNext ==
    \/ \E workplace_id \in WorkplaceNames : set_workplace(workplace_id)
    \/ \E workplace_id \in WorkplaceArgs : GetWorkers(workplace_id)
    \/ \E workplace_id \in WorkplaceArgs : \E worker_data \in WorkerData :
          add_worker(workplace_id, worker_data)
    \/ \E workplace_id \in WorkplaceArgs : \E worker_id \in AutoIdSet \cup {MetadataId} :
          delete_worker(workplace_id, worker_id)

StoreSpec == StoreInit /\ [][StoreNext]_vars

\* the worker methods together with the methods that empty the worker
\* collection and that store other documents next to the workers
StoreDocsNext ==
    \/ StoreNext
    \/ \E workplace_id \in WorkplaceArgs : remove_all_workers(workplace_id)
    \/ \E workplace_id \in WorkplaceArgs : update_hours_of_operation(workplace_id, HoursData)
    \/ \E workplace_id \in WorkplaceArgs : save_schedule(workplace_id, ScheduleData)

StoreDocsSpec == StoreInit /\ [][StoreDocsNext]_vars

(***************************************************************************)
(* find_optimal_shift_split called on its own, as the quota phase calls    *)
(* it: remaining_hours = 5.0 and prefer_split = True.                      *)
(***************************************************************************)
MaxWindows == 2

\* the lengths of the windows, in minutes: 1h, 2h, 3h, 4h, 4.5h, 5h, 8h
WindowLengths == {60, 120, 180, 240, 270, 300, 480}

WindowChoices ==
    {[day |-> d, s |-> HM(9, 0), e |-> HM(9, 0) + l] : d \in ModelDays, l \in WindowLengths}

WindowLists == UNION {[1..n -> WindowChoices] : n \in 0..MaxWindows}

ShiftSplitInit ==
    /\ split_pc = "call"
    /\ split_windows \in WindowLists
    /\ split_shifts = <<>>
    /\ SchedulerIdle
    /\ ParserIdle
    /\ StoreIdle

FindOptimalShiftSplit ==
    /\ split_pc = "call"
    /\ split_pc' = "return"
    /\ split_shifts' = find_optimal_shift_split(split_windows, WorkStudyQuota, TRUE)
    /\ UNCHANGED <<split_windows, scheduler_vars, parser_vars, store_vars>>

ShiftSplitNext == FindOptimalShiftSplit

ShiftSplitSpec == ShiftSplitInit /\ [][ShiftSplitNext]_vars

(***************************************************************************)
(* Properties of the returned result.                                      *)
(***************************************************************************)
Returned == pc = "done"

Holds(i, e) == \E k \in 1..Len(schedule[i].raw_assigned) : schedule[i].raw_assigned[k] = e

IsUnfilledEntry(i) == schedule[i].assigned = <<Unfilled>>

ShiftStart(i) == time_to_hour(schedule[i].start)

ShiftEnd(i) == time_to_hour(schedule[i].end)

\* the summed durations of the shift entries assigned to email e
RECURSIVE ShiftMinutes(_, _)
ShiftMinutes(e, n) ==
    IF n = 0 THEN 0
    ELSE ShiftMinutes(e, n - 1) + (IF Holds(n, e) THEN ShiftEnd(n) - ShiftStart(n) ELSE 0)

\* C1: in a returned schedule every shift entry that is not Unfilled lies
\* inside one availability interval of its worker on the shift's day.
AvailabilityContainment ==
    Returned =>
        \A i \in 1..Len(schedule) : \A e \in 1..Len(workers) :
            (~IsUnfilledEntry(i) /\ Holds(i, e)) =>
                is_worker_available(workers[e], schedule[i].day,
                                    ShiftStart(i), ShiftEnd(i))

\* C2: a work-study worker whose availability within the operating hours
\* totals at least 5.0h ends with shifts that sum to exactly 5.0h.
WorkStudyExactness ==
    Returned =>
        \A e \in 1..Len(workers) :
            (workers[e].work_study
               /\ MatchingHours(workers[e], hours_of_operation) >= WorkStudyQuota)
                => ShiftMinutes(e, Len(schedule)) = WorkStudyQuota

\* C3: no worker's assignedHours exceeds max_hours_per_worker in the result,
\* work-study workers included.
HourCap ==
    Returned =>
        \A e \in DOMAIN assigned_hours : assigned_hours[e] <= max_hours_per_worker

\* C4: no two shift entries of one worker on one day overlap.
NoSelfOverlap ==
    Returned =>
        \A i, j \in 1..Len(schedule) : \A e \in 1..Len(workers) :
            (i < j /\ schedule[i].day = schedule[j].day /\ Holds(i, e) /\ Holds(j, e))
                => ~overlaps(ShiftStart(i), ShiftEnd(i), ShiftStart(j), ShiftEnd(j))

\* C5: every shift entry lists at most max_workers_per_shift names, and at
\* most max_workers_per_shift entries (assigned or Unfilled) share one
\* (day, start, end).
StaffingCap ==
    Returned =>
        \A i \in 1..Len(schedule) :
            /\ Len(schedule[i].assigned) <= max_workers_per_shift
            /\ Cardinality({j \in 1..Len(schedule) :
                               /\ schedule[j].day = schedule[i].day
                               /\ schedule[j].start = schedule[i].start
                               /\ schedule[j].end = schedule[i].end})
                   <= max_workers_per_shift

\* a work-study slot is full and a work-study worker with enough matching
\* hours was left short of the quota
StaffingCapWitness ==
    /\ Returned
    /\ \E i \in 1..Len(schedule) :
          /\ schedule[i].is_work_study
          /\ Cardinality({j \in 1..Len(schedule) :
                             /\ schedule[j].day = schedule[i].day
                             /\ schedule[j].start = schedule[i].start
                             /\ schedule[j].end = schedule[i].end})
                 = max_workers_per_shift
    /\ \E e \in 1..Len(workers) :
          /\ workers[e].work_study
          /\ MatchingHours(workers[e], hours_of_operation) >= WorkStudyQuota
          /\ assigned_hours[e] = 0

\* C6: every shift entry lies inside one operating-hours block of its day
\* (block end + 24h when it is <= block start).
OperatingHoursContainment ==
    Returned =>
        \A i \in 1..Len(schedule) :
            \E d \in 1..Len(hours_of_operation) :
                /\ hours_of_operation[d].day = schedule[i].day
                /\ \E b \in 1..Len(hours_of_operation[d].ops) :
                      /\ OpStart(hours_of_operation[d].ops[b]) <= ShiftStart(i)
                      /\ ShiftEnd(i) <= OpEnd(hours_of_operation[d].ops[b])

\* C7: no work-study worker's assignedHours exceeds 5.0 in the result.
WorkStudyQuotaCap ==
    Returned =>
        \A e \in DOMAIN assigned_hours :
            workers[e].work_study => assigned_hours[e] <= WorkStudyQuota

NamedInIssues(e, kind) ==
    \E k \in 1..Len(ws_issues) :
        ws_issues[k].name = workers[e].name /\ ws_issues[k].kind = kind

\* C8 as stated: for every work-study worker of the roster, the final
\* assignedHours is 5 or ws_issues has an entry naming the worker.
ShortfallReportedForEveryRoster ==
    Returned =>
        \A e \in 1..Len(workers) :
            workers[e].work_study =>
                \/ e \in DOMAIN assigned_hours /\ assigned_hours[e] = WorkStudyQuota
                \/ NamedInIssues(e, "availability")
                \/ NamedInIssues(e, "final")

\* C8, amended: when hours_of_operation is not empty, every work-study
\* worker ends with 5 hours or is named by an entry of ws_issues: by a
\* pre-check entry when the matching hours are under 5, and otherwise by the
\* final entry unless another worker of the same name has a pre-check entry.
ShortfallReported ==
    (Returned /\ hours_of_operation # <<>>) =>
        \A e \in 1..Len(workers) :
            workers[e].work_study =>
                /\ \/ assigned_hours[e] = WorkStudyQuota
                   \/ NamedInIssues(e, "availability")
                   \/ NamedInIssues(e, "final")
                /\ MatchingHours(workers[e], hours_of_operation) < WorkStudyQuota
                       => NamedInIssues(e, "availability")
                /\ (/\ MatchingHours(workers[e], hours_of_operation) >= WorkStudyQuota
                    /\ assigned_hours[e] # WorkStudyQuota
                    /\ \A o \in 1..Len(workers) : o # e => workers[o].name # workers[e].name)
                       => NamedInIssues(e, "final")

\* both kinds of entry occur: one worker short of matching hours, another
\* with enough matching hours that did not end with exactly 5
ShortfallReportedWitness ==
    /\ Returned
    /\ \E e, o \in 1..Len(workers) :
          /\ workers[e].work_study /\ workers[o].work_study
          /\ MatchingHours(workers[e], hours_of_operation) < WorkStudyQuota
          /\ NamedInIssues(e, "availability")
          /\ MatchingHours(workers[o], hours_of_operation) >= WorkStudyQuota
          /\ assigned_hours[o] # WorkStudyQuota
          /\ NamedInIssues(o, "final")

AllResultsEmpty ==
    /\ schedule = <<>>
    /\ assigned_hours = <<>>
    /\ low_hours = <<>>
    /\ unassigned = <<>>
    /\ alt_sols = <<>>
    /\ unfilled_shifts = <<>>
    /\ ws_issues = <<>>
    /\ min_hours_issues = <<>>

IsScenarioWorkStudy(w) ==
    /\ w.work_study
    /\ w.availability = Avail(<<Interval(HM(9, 0), HM(14, 0))>>, <<>>)

IsScenarioRegular(w) ==
    /\ ~w.work_study
    /\ w.availability = Avail(<<Interval(HM(9, 0), HM(17, 0))>>, <<>>)

IsScenario ==
    /\ hours_of_operation =
           << [day |-> "Monday", ops |-> <<Block(Clock(9, 0), Clock(17, 0))>>] >>
    /\ max_hours_per_worker = 20 * MinutesPerHour
    /\ max_workers_per_shift = 1
    /\ Len(workers) = 2
    /\ \E s, r \in 1..2 : IsScenarioWorkStudy(workers[s]) /\ IsScenarioRegular(workers[r])

Slot(day, s, e) == <<day, hour_to_time_str(s), hour_to_time_str(e)>>

EntriesOf(e) ==
    {<<schedule[i].day, schedule[i].start, schedule[i].end>> :
        i \in {j \in 1..Len(schedule) : Holds(j, e)}}

UnfilledEntries ==
    {<<schedule[i].day, schedule[i].start, schedule[i].end>> :
        i \in {j \in 1..Len(schedule) : IsUnfilledEntry(j)}}

ScenarioWorkStudyPlaced ==
    \A s \in 1..2 : IsScenarioWorkStudy(workers[s]) =>
        /\ EntriesOf(s) = {Slot("Monday", HM(9, 0), HM(12, 0)),
                           Slot("Monday", HM(12, 0), HM(14, 0))}
        /\ ShiftMinutes(s, Len(schedule)) = WorkStudyQuota
        /\ assigned_hours[s] = WorkStudyQuota

\* C10 as stated: in every run of the scenario the work-study worker gets a
\* 3h and a 2h shift inside 09:00-14:00, and the whole of 14:00-17:00 goes
\* to the regular worker with no Unfilled entry.
ScenarioFillsAfternoon ==
    (Returned /\ IsScenario) =>
        /\ ScenarioWorkStudyPlaced
        /\ UnfilledEntries = {}
        /\ \A r \in 1..2 : IsScenarioRegular(workers[r]) =>
              /\ ShiftMinutes(r, Len(schedule)) = 3 * MinutesPerHour
              /\ \A i \in 1..Len(schedule) : Holds(i, r) =>
                     HM(14, 0) <= ShiftStart(i) /\ ShiftEnd(i) <= HM(17, 0)

\* C10, amended: the work-study worker gets 09:00-12:00 and 12:00-14:00; the
\* regular worker gets either 14:00-17:00 as one shift with no Unfilled
\* entry, or 14:00-16:00 only, 16:00-17:00 being recorded as Unfilled.
ScenarioOutcome ==
    (Returned /\ IsScenario) =>
        /\ ScenarioWorkStudyPlaced
        /\ \A r \in 1..2 : IsScenarioRegular(workers[r]) =>
              \/ /\ EntriesOf(r) = {Slot("Monday", HM(14, 0), HM(17, 0))}
                 /\ UnfilledEntries = {}
                 /\ unfilled_shifts = <<>>
              \/ /\ EntriesOf(r) = {Slot("Monday", HM(14, 0), HM(16, 0))}
                 /\ UnfilledEntries = {Slot("Monday", HM(16, 0), HM(17, 0))}
                 /\ Len(unfilled_shifts) = 1

\* the scenario has run and left 16:00-17:00 Unfilled
ScenarioWitness ==
    /\ Returned
    /\ IsScenario
    /\ UnfilledEntries = {Slot("Monday", HM(16, 0), HM(17, 0))}

(***************************************************************************)
(* Alternative solutions.                                                  *)
(***************************************************************************)
UnfilledKey(u) ==
    <<unfilled_shifts[u].day, unfilled_shifts[u].start, unfilled_shifts[u].end>>

UnfilledDuration(u) == unfilled_shifts[u].end_hour - unfilled_shifts[u].start_hour

\* worker e has an availability interval that contains unfilled record u
CoversUnfilled(e, u) ==
    \E i \in 1..Len(workers[e].availability[unfilled_shifts[u].day]) :
        /\ workers[e].availability[unfilled_shifts[u].day][i].start_hour
               <= unfilled_shifts[u].start_hour
        /\ unfilled_shifts[u].end_hour
               <= workers[e].availability[unfilled_shifts[u].day][i].end_hour

FitsNormalCap(e, u) == assigned_hours[e] + UnfilledDuration(u) <= max_hours_per_worker

\* hours + duration <= 1.5 x max_hours_per_worker
FitsExpandedCap(e, u) ==
    2 * (assigned_hours[e] + UnfilledDuration(u)) <= 3 * max_hours_per_worker

KeysOfUnfilled == {UnfilledKey(u) : u \in 1..Len(unfilled_shifts)}

Qualifying(u) ==
    {e \in 1..Len(workers) : CoversUnfilled(e, u) /\ FitsExpandedCap(e, u)}

\* the listings of the set q in ascending order of final assigned hours
AscendingListings(q) ==
    {c \in [1..Cardinality(q) -> q] :
        \A i, j \in 1..Cardinality(q) :
            i < j => c[i] # c[j] /\ assigned_hours[c[i]] <= assigned_hours[c[j]]}

\* C12: for every record of unfilled_shifts, alt_sols under its key lists
\* exactly the workers with an availability interval containing the slot
\* and final hours + duration <= 1.5 x max_hours_per_worker, in ascending
\* order of final hours; the key is absent exactly when there is none.
AlternativesExact ==
    Returned =>
        \A u \in 1..Len(unfilled_shifts) :
            IF Qualifying(u) = {}
            THEN UnfilledKey(u) \notin DOMAIN alt_sols
            ELSE /\ UnfilledKey(u) \in DOMAIN alt_sols
                 /\ \E c \in AscendingListings(Qualifying(u)) :
                       alt_sols[UnfilledKey(u)] =
                           [i \in 1..Cardinality(Qualifying(u)) |-> workers[c[i]].name]

\* a key lists two workers, the later one of the roster first because of
\* its fewer hours, and another unfilled record has no key
AlternativesExactWitness ==
    /\ Returned
    /\ Len(workers) = 2
    /\ workers[1].name # workers[2].name
    /\ \E u \in 1..Len(unfilled_shifts) :
          /\ UnfilledKey(u) \in DOMAIN alt_sols
          /\ alt_sols[UnfilledKey(u)] = <<workers[2].name, workers[1].name>>
          /\ assigned_hours[2] < assigned_hours[1]
    /\ \E u \in 1..Len(unfilled_shifts) : UnfilledKey(u) \notin DOMAIN alt_sols

(***************************************************************************)
(* Under-hour and zero-hour lists.                                         *)
(***************************************************************************)
Listed(names, e) == \E k \in 1..Len(names) : names[k] = workers[e].name

BelowFour == {e \in 1..Len(workers) :
                 ~workers[e].work_study /\ assigned_hours[e] < 4 * MinutesPerHour}

BetweenZeroAndFour == {e \in BelowFour : 0 < assigned_hours[e]}

\* C13 as stated: low_hours holds exactly the non-work-study workers with
\* 0 < assignedHours < 4; a non-work-study worker with 0 hours is in
\* unassigned and not in low_hours.
LowHoursExcludesZero ==
    (Returned /\ hours_of_operation # <<>>) =>
        /\ Len(low_hours) = Cardinality(BetweenZeroAndFour)
        /\ \A e \in BetweenZeroAndFour : Listed(low_hours, e)
        /\ \A e \in 1..Len(workers) :
              (~workers[e].work_study /\ assigned_hours[e] = 0
                 /\ \A o \in 1..Len(workers) : o # e => workers[o].name # workers[e].name)
                  => Listed(unassigned, e) /\ ~Listed(low_hours, e)

\* C13, amended: low_hours holds exactly the non-work-study workers with
\* assignedHours < 4, in roster order; a non-work-study worker with 0 hours
\* is in unassigned and in low_hours.
LowHoursIncludesZero ==
    (Returned /\ hours_of_operation # <<>>) =>
        /\ Len(low_hours) = Cardinality(BelowFour)
        /\ \A e \in 1..Len(workers) :
              (\A o \in 1..Len(workers) : o # e => workers[o].name # workers[e].name)
                  => (Listed(low_hours, e) <=> e \in BelowFour)
        /\ \A e \in BelowFour : Listed(low_hours, e)
        /\ \A i, j \in 1..Len(low_hours) : \A a, b \in BelowFour :
              (i < j /\ low_hours[i] = workers[a].name /\ low_hours[j] = workers[b].name
                 /\ workers[a].name # workers[b].name) => a < b
        /\ \A e \in BelowFour :
              assigned_hours[e] = 0 => Listed(unassigned, e)

\* a regular worker with 0 hours is in both lists, next to a regular worker
\* with some hours under 4
LowHoursWitness ==
    /\ Returned
    /\ hours_of_operation # <<>>
    /\ Len(workers) = 2
    /\ workers[1].name # workers[2].name
    /\ \E e, o \in BelowFour :
          /\ assigned_hours[e] = 0
          /\ Listed(low_hours, e) /\ Listed(unassigned, e)
          /\ assigned_hours[o] > 0
          /\ Listed(low_hours, o) /\ ~Listed(unassigned, o)

(***************************************************************************)
(* Properties of parse_availability.                                       *)
(***************************************************************************)
Parsed == parse_pc = "return"

\* the blocks of the raw string that are kept, and those kept for one day
Kept == SelectSeq(raw_string, LAMBDA b : Matches(b) /\ DayOf(b.word) # NoDay)

KeptFor(day) == SelectSeq(Kept, LAMBDA b : DayOf(b.word) = day)

\* H * 60 + M of a clock text, i.e. (H + M/60) hours
TextMinutes(text) == DigitsValue(text.h) * MinutesPerHour + DigitsValue(text.m)

IntervalsOf(day) ==
    IF \E i \in 1..Len(availability) : availability[i].day = day
    THEN (CHOOSE it \in {availability[i] : i \in 1..Len(availability)} :
              it.day = day).intervals
    ELSE <<>>

\* every kept block gives one interval of its day, in input order, with the
\* hours of its two clock strings and the end moved by 24h exactly when it
\* is not after the start; nothing else is in the result
BlocksParsedInOrder ==
    /\ \A i, j \in 1..Len(availability) : i # j => availability[i].day # availability[j].day
    /\ \A i \in 1..Len(availability) : availability[i].intervals # <<>>
    /\ \A d \in 1..Len(DAYS) :
          /\ Len(IntervalsOf(DAYS[d])) = Len(KeptFor(DAYS[d]))
          /\ \A k \in 1..Len(KeptFor(DAYS[d])) :
                LET b == KeptFor(DAYS[d])[k]
                    a == IntervalsOf(DAYS[d])[k]
                IN  /\ a.start_hour = TextMinutes(b.start)
                    /\ a.end_hour = TextMinutes(EndGroup(b))
                          + (IF TextMinutes(EndGroup(b)) <= a.start_hour
                             THEN 24 * MinutesPerHour ELSE 0)

\* clock strings of the 24-hour clock: HH <= 23 and MM <= 59
IsTimeOfDay(text) == DigitsValue(text.h) <= 23 /\ DigitsValue(text.m) <= 59

\* C14 as stated: every matched block is parsed as above, and hence every
\* parsed interval has start_hour < end_hour <= start_hour + 24.
ParsedIntervalsWellFormed ==
    Parsed =>
        /\ BlocksParsedInOrder
        /\ \A i \in 1..Len(availability) : \A k \in 1..Len(availability[i].intervals) :
              /\ availability[i].intervals[k].start_hour
                     < availability[i].intervals[k].end_hour
              /\ availability[i].intervals[k].end_hour
                     <= availability[i].intervals[k].start_hour + 24 * MinutesPerHour

\* C14, amended: every matched block is parsed as above; an interval has
\* start_hour < end_hour <= start_hour + 24 when both of its clock strings
\* are times of day (HH <= 23, MM <= 59).
ParsedIntervalsWellFormedForTimesOfDay ==
    Parsed =>
        /\ BlocksParsedInOrder
        /\ \A i \in 1..Len(availability) : \A k \in 1..Len(availability[i].intervals) :
              (IsTimeOfDay(availability[i].intervals[k].start)
                 /\ IsTimeOfDay(availability[i].intervals[k].end)) =>
                  /\ availability[i].intervals[k].start_hour
                         < availability[i].intervals[k].end_hour
                  /\ availability[i].intervals[k].end_hour
                         <= availability[i].intervals[k].start_hour + 24 * MinutesPerHour

\* "Monday 09:00-17:00, tue 18:00-02:00" and a third block that is skipped
\* gave Monday [9, 17] and Tuesday [18, 26]
ParsedWitness ==
    /\ Parsed
    /\ Len(raw_string) = 3
    /\ Len(Kept) = 2
    /\ Len(availability) = 2
    /\ availability[1].day = "Monday"
    /\ Len(availability[1].intervals) = 1
    /\ availability[1].intervals[1].start_hour = HM(9, 0)
    /\ availability[1].intervals[1].end_hour = HM(17, 0)
    /\ availability[2].day = "Tuesday"
    /\ Len(availability[2].intervals) = 1
    /\ availability[2].intervals[1].start_hour = HM(18, 0)
    /\ availability[2].intervals[1].end_hour = HM(26, 0)

(***************************************************************************)
(* Properties of the worker store.                                         *)
(***************************************************************************)
ListsAdded ==
    \E i \in 1..Len(returned) :
        returned[i].email = added.email /\ returned[i].id = added.id

\* C15: once a workplace is set, the get_workers() that follows a successful
\* add_worker(None, w) lists a worker with w's email and the returned id;
\* the get_workers() that follows a successful delete_worker(None, id) of
\* that id does not list it and has as many workers as before the add.
AddGetDeleteRoundTrip ==
    (call.op = "get_workers" /\ call.workplace_id = NoWorkplace) =>
        /\ added.stage = "added" => ListsAdded
        /\ added.stage = "deleted" =>
              /\ \A i \in 1..Len(returned) : returned[i].id # added.id
              /\ Len(returned) = added.count_before

\* get_workers() after the add and the delete of one worker, in a workplace
\* that holds another worker
AddGetDeleteWitness ==
    /\ call.op = "get_workers"
    /\ call.workplace_id = NoWorkplace
    /\ added.stage = "deleted"
    /\ \E i \in 1..Len(returned) : returned[i].email # ""

(***************************************************************************)
(* Properties of the two phases of a run.                                  *)
(***************************************************************************)
\* the hours email e holds when the work-study quota phase ends: the summed
\* durations of the entries that phase appended for e
RECURSIVE QuotaPhaseMinutes(_, _)
QuotaPhaseMinutes(e, n) ==
    IF n = 0 THEN 0
    ELSE QuotaPhaseMinutes(e, n - 1)
           + (IF schedule[n].is_work_study /\ Holds(n, e)
              THEN ShiftEnd(n) - ShiftStart(n) ELSE 0)

Named(e) == \E k \in 1..Len(ws_issues) : ws_issues[k].name = workers[e].name

\* C16: every work-study worker who finishes the work-study quota phase
\* with fewer than 5.0 assigned hours has an entry naming them in the
\* returned ws_issues, whatever the greedy phase assigns afterwards.
QuotaShortfallRecorded ==
    Returned =>
        \A e \in DOMAIN assigned_hours :
            (workers[e].work_study
               /\ QuotaPhaseMinutes(e, Len(schedule)) < WorkStudyQuota)
                => Named(e)

IsGreedyEntry(i) == ~schedule[i].is_work_study /\ ~IsUnfilledEntry(i)

\* entry j starts less than 0.5h after entry i ends
StartsRightAfter(j, i) ==
    /\ ShiftStart(j) >= ShiftEnd(i)
    /\ 2 * (ShiftStart(j) - ShiftEnd(i)) < MinutesPerHour

BackToBack(i, j) ==
    /\ i # j
    /\ schedule[i].day = schedule[j].day
    /\ StartsRightAfter(j, i) \/ StartsRightAfter(i, j)

\* C17: in the returned schedule no worker holds a shift assigned by the
\* greedy phase together with another shift of theirs on the same day such
\* that one of the two starts less than 0.5h after the other ends.
NoBackToBackGreedyShift ==
    Returned =>
        \A i, j \in 1..Len(schedule) : \A e \in 1..Len(workers) :
            (IsGreedyEntry(i) /\ Holds(i, e) /\ Holds(j, e)) => ~BackToBack(i, j)

\* a step of the greedy phase that appends shift entries
Carves == pc = "greedy" /\ Len(schedule') > Len(schedule)

Carved == (Len(schedule) + 1)..Len(schedule')

CarvedStart(i) == time_to_hour(schedule'[i].start)

CarvedEnd(i) == time_to_hour(schedule'[i].end)

\* the entry lies in what is left of the free slot being carved
FitsRemainder(i) == cur <= CarvedStart(i) /\ CarvedEnd(i) <= free_slots[1][2]

\* C18 as stated: every entry the greedy phase appends, assigned or
\* Unfilled, lasts exactly 2, 3, 4 or 5 hours and fits in what remains of
\* its free slot.
GreedyCarvedLengths ==
    [][Carves =>
          \A i \in Carved :
              /\ CarvedEnd(i) - CarvedStart(i) \in {l * MinutesPerHour : l \in shift_lengths}
              /\ FitsRemainder(i)]_vars

\* C18, amended: every entry the greedy phase appends starts at the cursor,
\* fits in what remains of its free slot, and lasts exactly 2, 3, 4 or 5
\* hours, or is all that remains of the slot when less than 2 hours remain.
GreedyCarvedLengthsOrRemainder ==
    [][Carves =>
          \A i \in Carved :
              /\ CarvedStart(i) = cur
              /\ FitsRemainder(i)
              /\ \/ CarvedEnd(i) - CarvedStart(i)
                        \in {l * MinutesPerHour : l \in shift_lengths}
                 \/ /\ CarvedEnd(i) = free_slots[1][2]
                    /\ CarvedEnd(i) > CarvedStart(i)
                    /\ free_slots[1][2] - cur < 2 * MinutesPerHour]_vars

\* the greedy phase has carved a full-length block and, after it, a
\* remainder of less than 2 hours
GreedyCarvedWitness ==
    /\ pc = "greedy"
    /\ \E i, j \in 1..Len(schedule) :
          /\ i < j
          /\ ~schedule[i].is_work_study /\ ~schedule[j].is_work_study
          /\ schedule[i].day = schedule[j].day
          /\ ShiftEnd(i) = ShiftStart(j)
          /\ ShiftEnd(i) - ShiftStart(i) >= 2 * MinutesPerHour
          /\ ShiftEnd(j) - ShiftStart(j) < 2 * MinutesPerHour

\* entry j is held by a worker and covers the minute t of its day
Covers(j, day, t) ==
    /\ ~IsUnfilledEntry(j)
    /\ schedule[j].day = day
    /\ ShiftStart(j) <= t
    /\ t < ShiftEnd(j)

\* the distinct workers on duty at minute t of the day
OnDuty(day, t) ==
    {e \in 1..Len(workers) : \E j \in 1..Len(schedule) : Covers(j, day, t) /\ Holds(j, e)}

\* C19: at every instant of every day of the returned schedule at most
\* max_workers_per_shift distinct workers hold an entry covering it, also
\* when the covering entries differ in (start, end).  The number on duty
\* only rises where an entry starts, so the starts are the instants tested.
StaffingCapOverTime ==
    Returned =>
        \A i \in 1..Len(schedule) :
            Cardinality(OnDuty(schedule[i].day, ShiftStart(i))) <= max_workers_per_shift

(***************************************************************************)
(* Properties of find_optimal_shift_split.                                 *)
(***************************************************************************)
SplitReturned == split_pc = "return"

HasLongWindow ==
    \E i \in 1..Len(split_windows) : Duration(split_windows[i]) >= WorkStudyQuota

\* exactly one piece of 3.0h and one piece of 2.0h
ThreePlusTwo ==
    /\ Len(split_shifts) = 2
    /\ \E i, j \in 1..2 :
          /\ i # j
          /\ split_shifts[i].duration = 3 * MinutesPerHour
          /\ split_shifts[i].end - split_shifts[i].start = 3 * MinutesPerHour
          /\ split_shifts[j].duration = 2 * MinutesPerHour
          /\ split_shifts[j].end - split_shifts[j].start = 2 * MinutesPerHour

NoWindowUnderFourAndAHalf ==
    \A i \in 1..Len(split_windows) : 2 * Duration(split_windows[i]) >= 9 * MinutesPerHour

HasThreeAndTwoHourWindows ==
    \E i, j \in 1..Len(split_windows) :
        i # j /\ NearThreeHours(split_windows[i]) /\ NearTwoHours(split_windows[j])

FreeDuring(e, u) ==
    \A j \in 1..Len(schedule) :
        (schedule[j].day = unfilled_shifts[u].day /\ Holds(j, e)) =>
            ~overlaps(ShiftStart(j), ShiftEnd(j),
                      unfilled_shifts[u].start_hour, unfilled_shifts[u].end_hour)

\* C21: no worker listed in alt_sols for an unfilled shift is assigned, in
\* the returned schedule, to a shift of the same day that overlaps the
\* unfilled shift's interval: every listed name is the name of a worker who
\* is free during it.
AlternativesAreFree ==
    Returned =>
        \A u \in 1..Len(unfilled_shifts) :
            UnfilledKey(u) \in DOMAIN alt_sols =>
                \A i \in 1..Len(alt_sols[UnfilledKey(u)]) :
                    \E e \in 1..Len(workers) :
                        /\ workers[e].name = alt_sols[UnfilledKey(u)][i]
                        /\ FreeDuring(e, u)

CarvedUnfilled == {i \in Carved : schedule'[i].assigned = <<Unfilled>>}

CarvedHeld == Carved \ CarvedUnfilled

\* the end of the block carved by this step
CarvedBlockEnd == CarvedEnd(Len(schedule'))

\* the workers eligible for the block, judged on the state before the step
EligibleForCarved ==
    {e \in 1..Len(workers) :
        Eligible(workers[e], cur_day, cur, CarvedBlockEnd, schedule,
                 assigned_hours, max_hours_per_worker)}

NewUnfilledRecords == (Len(unfilled_shifts) + 1)..Len(unfilled_shifts')

\* C22: for every block carved by the greedy phase, worker entries plus
\* Unfilled entries number max_workers_per_shift, the Unfilled entries
\* number max(0, max_workers_per_shift - eligible workers), and
\* unfilled_shifts receives exactly one record with the block's day, start
\* and end per Unfilled entry.
SeatAccounting ==
    [][Carves =>
          /\ \A i \in Carved :
                /\ schedule'[i].day = cur_day
                /\ schedule'[i].start = hour_to_time_str(cur)
                /\ CarvedEnd(i) = CarvedBlockEnd
                /\ schedule'[i].all_available = EligibleForCarved
          /\ Cardinality(CarvedHeld) + Cardinality(CarvedUnfilled) = max_workers_per_shift
          /\ Cardinality(CarvedUnfilled)
                 = Max(0, max_workers_per_shift - Cardinality(EligibleForCarved))
          /\ \A i \in CarvedHeld :
                /\ Len(schedule'[i].raw_assigned) = 1
                /\ schedule'[i].raw_assigned[1] \in EligibleForCarved
                /\ \A j \in CarvedHeld :
                      i # j => schedule'[j].raw_assigned # schedule'[i].raw_assigned
          /\ \A i \in CarvedUnfilled : schedule'[i].raw_assigned = <<>>
          /\ Len(unfilled_shifts') = Len(unfilled_shifts) + Cardinality(CarvedUnfilled)
          /\ SubSeq(unfilled_shifts', 1, Len(unfilled_shifts)) = unfilled_shifts
          /\ \A r \in NewUnfilledRecords :
                /\ unfilled_shifts'[r].day = cur_day
                /\ unfilled_shifts'[r].start = hour_to_time_str(cur)
                /\ unfilled_shifts'[r].end = schedule'[Len(schedule')].end
                /\ unfilled_shifts'[r].start_hour = cur
                /\ unfilled_shifts'[r].end_hour = CarvedBlockEnd]_vars

\* a block of two seats with one eligible worker: one seat held, the other
\* Unfilled and recorded once; and a block with no eligible worker, both
\* seats Unfilled and recorded twice
SeatAccountingWitness ==
    /\ max_workers_per_shift = 2
    /\ \E i, j \in 1..Len(schedule) :
          /\ ~schedule[i].is_work_study /\ ~IsUnfilledEntry(i) /\ IsUnfilledEntry(j)
          /\ schedule[i].day = schedule[j].day
          /\ schedule[i].start = schedule[j].start
          /\ schedule[i].end = schedule[j].end
          /\ Cardinality({u \in 1..Len(unfilled_shifts) :
                 UnfilledKey(u) = <<schedule[j].day, schedule[j].start, schedule[j].end>>}) = 1
    /\ \E i, j \in 1..Len(schedule) :
          /\ i # j /\ IsUnfilledEntry(i) /\ IsUnfilledEntry(j)
          /\ schedule[i].day = schedule[j].day
          /\ schedule[i].start = schedule[j].start
          /\ schedule[i].end = schedule[j].end
          /\ Cardinality({u \in 1..Len(unfilled_shifts) :
                 UnfilledKey(u) = <<schedule[j].day, schedule[j].start, schedule[j].end>>}) = 2

\* max(availability_hours, 1), in minutes
RatioBase(e) == Max(calculate_availability_hours(workers[e]), MinutesPerHour)

\* hours_a / base_a <= hours_b / base_b, without division
RatioAtMost(hours_a, a, hours_b, b) == hours_a * RatioBase(b) <= hours_b * RatioBase(a)

CarvedWorkers == {schedule'[i].raw_assigned[1] : i \in CarvedHeld}

\* C23: for every block carved by the greedy phase, every worker assigned to
\* the block has a fairness ratio assignedHours / max(availabilityHours, 1),
\* taken just before the block is assigned, that is at most the ratio of
\* every eligible worker not assigned to the block.
FairnessRanking ==
    [][Carves =>
          \A a \in CarvedWorkers : \A b \in EligibleForCarved \ CarvedWorkers :
              RatioAtMost(assigned_hours[a], a, assigned_hours[b], b)]_vars

\* the block just carved had one seat and two eligible workers; it went to
\* the one with the strictly lower ratio, who had the more hours of the two
FairnessRankingWitness ==
    /\ pc = "greedy"
    /\ max_workers_per_shift = 1
    /\ schedule # <<>>
    /\ LET last == Len(schedule)
           d == ShiftEnd(last) - ShiftStart(last)
       IN  /\ ~schedule[last].is_work_study
           /\ ~IsUnfilledEntry(last)
           /\ \E a, b \in schedule[last].all_available :
                 /\ a # b
                 /\ Holds(last, a)
                 /\ assigned_hours[a] - d > assigned_hours[b]
                 /\ ~RatioAtMost(assigned_hours[b], b, assigned_hours[a] - d, a)

(***************************************************************************)
(* Order of the work-study placements.                                     *)
(***************************************************************************)
IsWorkStudy(e) == workers[e].work_study

\* a is placed before b: less total weekly availability, or as much and
\* earlier in the roster
PlacedBefore(a, b) ==
    \/ calculate_availability_hours(workers[a]) < calculate_availability_hours(workers[b])
    \/ /\ calculate_availability_hours(workers[a]) = calculate_availability_hours(workers[b])
       /\ a < b

Waiting == {ws_workers[i].email : i \in 1..Len(ws_workers)}

\* the (day, start, end) slots that the placement of worker e targets
TargetSlots(e) ==
    LET pieces == find_optimal_shift_split(Windows(workers[e], hours_of_operation),
                                           WorkStudyQuota, TRUE)
    IN  {<<pieces[i].day, hour_to_time_str(pieces[i].start),
           hour_to_time_str(pieces[i].end)>> : i \in 1..Len(pieces)}

SlotOf(i) == <<schedule[i].day, schedule[i].start, schedule[i].end>>

QuotaPhaseOver == pc \in {"greedy", "done"}

\* C24: work-study workers are placed one after another in ascending order
\* of total weekly availability (ties in roster order), each placement
\* completing before the next begins and all of them before any
\* greedy-phase entry; so with max_workers_per_shift = 1 a slot targeted by
\* several work-study workers goes to the first of them in that order and
\* the others are skipped for it.
WorkStudyPlacementOrder ==
    /\ \A i, j \in 1..Len(ws_workers) :
          i < j => PlacedBefore(ws_workers[i].email, ws_workers[j].email)
    /\ \A e \in Waiting :
          /\ IsWorkStudy(e)
          /\ \A i \in 1..Len(schedule) : ~Holds(i, e)
          /\ \A a \in 1..Len(workers) :
                (IsWorkStudy(a) /\ a \notin Waiting) => PlacedBefore(a, e)
    /\ pc = "work_study" =>
          /\ \A e \in 1..Len(workers) :
                (IsWorkStudy(e) /\ e \notin Waiting) =>
                    \A a \in 1..Len(workers) :
                        (IsWorkStudy(a) /\ PlacedBefore(a, e)) => a \notin Waiting
          /\ \A i \in 1..Len(schedule) : schedule[i].is_work_study
    /\ \A i, j \in 1..Len(schedule) :
          (i < j /\ schedule[j].is_work_study) =>
              /\ schedule[i].is_work_study
              /\ \A a, b \in 1..Len(workers) :
                    (Holds(i, a) /\ Holds(j, b) /\ a # b) => PlacedBefore(a, b)
    /\ (QuotaPhaseOver /\ max_workers_per_shift = 1) =>
          \A a, b \in 1..Len(workers) :
              (IsWorkStudy(a) /\ IsWorkStudy(b) /\ PlacedBefore(a, b)) =>
                  \A slot \in TargetSlots(a) \cap TargetSlots(b) :
                      /\ \A i \in 1..Len(schedule) :
                            (schedule[i].is_work_study /\ SlotOf(i) = slot) => ~Holds(i, b)
                      /\ \E i \in 1..Len(schedule) :
                            /\ schedule[i].is_work_study
                            /\ SlotOf(i) = slot
                            /\ \E c \in 1..Len(workers) :
                                  /\ Holds(i, c)
                                  /\ c = a \/ PlacedBefore(c, a)

\* two work-study workers target the same slot with one seat: the one with
\* less total availability, who comes later in the roster, holds it
WorkStudyPlacementWitness ==
    /\ Returned
    /\ max_workers_per_shift = 1
    /\ \E a, b \in 1..Len(workers) :
          /\ IsWorkStudy(a) /\ IsWorkStudy(b)
          /\ b < a
          /\ calculate_availability_hours(workers[a])
                 < calculate_availability_hours(workers[b])
          /\ \E slot \in TargetSlots(a) \cap TargetSlots(b) :
                /\ \E i \in 1..Len(schedule) : SlotOf(i) = slot /\ Holds(i, a)
                /\ \A i \in 1..Len(schedule) : SlotOf(i) = slot => ~Holds(i, b)

(***************************************************************************)
(* Frame of the greedy phase.                                              *)
(***************************************************************************)
\* C25: a work-study worker whose assigned hours are 0 when the quota phase
\* ends is never eligible for, nor assigned to, a greedy-phase block: their
\* assigned hours stay 0 and they hold no shift, up to the returned result.
ZeroHourWorkStudyUntouched ==
    QuotaPhaseOver =>
        \A e \in DOMAIN assigned_hours :
            (IsWorkStudy(e) /\ QuotaPhaseMinutes(e, Len(schedule)) = 0) =>
                /\ assigned_hours[e] = 0
                /\ \A i \in 1..Len(schedule) :
                      /\ ~Holds(i, e)
                      /\ ~schedule[i].is_work_study => e \notin schedule[i].all_available

\* a work-study worker left at 0 hours by the quota phase, although they
\* have windows, was available for a block the greedy phase carved and
\* could not fill
ZeroHourWorkStudyWitness ==
    /\ Returned
    /\ \E e \in DOMAIN assigned_hours :
          /\ IsWorkStudy(e)
          /\ assigned_hours[e] = 0
          /\ TargetSlots(e) # {}
          /\ \E i \in 1..Len(schedule) :
                /\ IsUnfilledEntry(i)
                /\ is_worker_available(workers[e], schedule[i].day,
                                       ShiftStart(i), ShiftEnd(i))
                /\ ShiftEnd(i) - ShiftStart(i) <= max_hours_per_worker

\* C26: of two shift entries of one day, at least one of them created by
\* the greedy phase, either both have the identical (start, end) block or
\* their intervals do not overlap, across several operating-hours blocks of
\* the day and whatever the order in which the free slots are processed.
GreedyBlocksNeverCollide ==
    \A i, j \in 1..Len(schedule) :
        (/\ i # j
         /\ schedule[i].day = schedule[j].day
         /\ ~schedule[i].is_work_study \/ ~schedule[j].is_work_study) =>
            \/ schedule[i].start = schedule[j].start /\ schedule[i].end = schedule[j].end
            \/ ~overlaps(ShiftStart(i), ShiftEnd(i), ShiftStart(j), ShiftEnd(j))

\* a day with a work-study entry in the middle of the first block: the free
\* slot after it was carved before the longer one in front of it, and the
\* second, overlapping operating-hours block was carved from where the
\* first one ends
GreedyBlocksWitness ==
    /\ Returned
    /\ \E w, i, j, k \in 1..Len(schedule) :
          /\ schedule[w].is_work_study
          /\ ~schedule[i].is_work_study /\ ~schedule[j].is_work_study
          /\ ~schedule[k].is_work_study
          /\ schedule[w].day = schedule[i].day
          /\ schedule[i].day = schedule[j].day
          /\ schedule[j].day = schedule[k].day
          /\ i < j /\ j < k
          /\ ShiftStart(i) = ShiftEnd(w)
          /\ ShiftEnd(j) = ShiftStart(w)
          /\ ShiftStart(k) = HM(17, 0)
          /\ ShiftEnd(k) = HM(19, 0)

\* an iteration of "while cur < e0" is about to run
InCarvingLoop ==
    /\ pc = "greedy"
    /\ free_slots # <<>>
    /\ free_slots[1][2] - free_slots[1][1] >= 2 * MinutesPerHour

\* the iteration carved a block that ends before the slot does, and the
\* cursor moved forward to its end
CursorMovedOn ==
    /\ free_slots' = free_slots
    /\ cur < cur'
    /\ cur' < free_slots[1][2]
    /\ \A i \in Carved : CarvedStart(i) = cur /\ CarvedEnd(i) = cur'

\* the iteration carved the block that ends where the slot ends, and the
\* loop of this slot was left
SlotConsumed ==
    /\ free_slots' = Tail(free_slots)
    /\ \A i \in Carved : CarvedStart(i) = cur /\ CarvedEnd(i) = free_slots[1][2]

CursorAdvances ==
    InCarvingLoop =>
        /\ free_slots[1][1] <= cur
        /\ cur < free_slots[1][2]
        /\ Carved # {}
        /\ CursorMovedOn \/ SlotConsumed

\* where the call stands, as a tuple of naturals ordered from the left:
\* the phase, the work-study workers not yet placed, the operating-hours
\* blocks not yet begun, the free slots not yet left, and what is left of
\* the free slot being carved
PcRank ==
    CASE pc = "validate" -> 3
      [] pc = "work_study" -> 2
      [] pc = "greedy" -> 1
      [] pc = "done" -> 0

Variant ==
    <<PcRank, Len(ws_workers), Len(op_queue), Len(free_slots),
      IF free_slots = <<>> THEN 0 ELSE free_slots[1][2] - cur>>

LexLess(a, b) ==
    \E i \in 1..Len(a) : a[i] < b[i] /\ \A j \in 1..(i - 1) : a[j] = b[j]

VariantDecreases ==
    /\ \A i \in 1..Len(Variant) : Variant[i] \in Nat
    /\ LexLess(Variant', Variant)

\* a call that has not returned has a statement to run: pc names a phase,
\* and an iteration of the carving loop has a length and workers to choose
NotStuck ==
    /\ pc \in {"validate", "work_study", "greedy", "done"}
    /\ InCarvingLoop =>
          LET lengths == LengthOutcomes(SlotLengths(free_slots[1][1], free_slots[1][2]),
                                        cur, free_slots[1][2])
          IN  /\ lengths # {}
              /\ \A length \in lengths :
                    LET end_shift == Min(cur + length * MinutesPerHour, free_slots[1][2])
                        avail == {e \in 1..Len(workers) :
                                     Eligible(workers[e], cur_day, cur, end_shift, schedule,
                                              assigned_hours, max_hours_per_worker)}
                        k == Min(max_workers_per_shift, Cardinality(avail))
                    IN  ChosenOutcomes(avail, k, assigned_hours, workers) # {}

\* C27: every run terminates: a call that has not returned always has a
\* step to take and every step lowers a tuple of naturals; in the carving
\* loop of a free slot of at least 2h the cursor strictly increases with
\* every carved block and the loop is left exactly when the carved block
\* ends at the end of the slot.
Termination == []NotStuck /\ [][VariantDecreases /\ CursorAdvances]_vars

\* a returned schedule one of whose free slots took two iterations
TerminationWitness ==
    /\ Returned
    /\ \E i, j \in 1..Len(schedule) :
          /\ ~schedule[i].is_work_study /\ ~schedule[j].is_work_study
          /\ schedule[i].day = schedule[j].day
          /\ j = i + max_workers_per_shift
          /\ ShiftStart(j) = ShiftEnd(i)

\* the ledger has an entry for every email that holds a shift, and the entry
\* of every email is the summed length of the shifts the email holds
LedgerMatches ==
    /\ \A i \in 1..Len(schedule) : \A k \in 1..Len(schedule[i].raw_assigned) :
          schedule[i].raw_assigned[k] \in DOMAIN assigned_hours
    /\ \A e \in DOMAIN assigned_hours :
          assigned_hours[e] = ShiftMinutes(e, Len(schedule))

LedgerNeverDecreases ==
    \A e \in DOMAIN assigned_hours :
        /\ e \in DOMAIN assigned_hours'
        /\ assigned_hours'[e] >= assigned_hours[e]

\* C28: at every point of a run and in the returned result assigned_hours
\* of every email equals the summed durations (end - start) of the shift
\* entries whose raw_assigned contains the email, and assigned_hours never
\* decreases.
HoursLedgerConsistent == []LedgerMatches /\ [][LedgerNeverDecreases]_vars

\* a returned ledger entry made of a work-study shift and a greedy shift
HoursLedgerWitness ==
    /\ Returned
    /\ \E e \in DOMAIN assigned_hours : \E i, j \in 1..Len(schedule) :
          /\ Holds(i, e) /\ schedule[i].is_work_study
          /\ Holds(j, e) /\ ~schedule[j].is_work_study
          /\ assigned_hours[e] > ShiftEnd(i) - ShiftStart(i)

\* the entries of a day, assigned or Unfilled
DayEntries(day) == {i \in 1..Len(schedule) : schedule[i].day = day}

CoveredAt(day, t) == \E i \in DayEntries(day) : ShiftStart(i) <= t /\ t < ShiftEnd(i)

\* the instants of the block [s, e) at which an uncovered stretch can start
GapStarts(day, s, e) ==
    {a \in {s} \cup {ShiftEnd(i) : i \in DayEntries(day)} :
        s <= a /\ a < e /\ ~CoveredAt(day, a)}

\* where the uncovered stretch that starts at a ends
GapEnd(day, a, e) ==
    LET ends == {e} \cup {ShiftStart(i) : i \in {j \in DayEntries(day) : ShiftStart(j) > a}}
    IN  CHOOSE b \in ends : \A x \in ends : b <= x

NoUnfilledRecordIn(day, a, b) ==
    \A n \in 1..Len(unfilled_shifts) :
        unfilled_shifts[n].day = day =>
            ~overlaps(unfilled_shifts[n].start_hour, unfilled_shifts[n].end_hour, a, b)

\* every uncovered stretch of the block is shorter than 2h and has no
\* unfilled_shifts record
BlockCovered(day, op) ==
    \A a \in GapStarts(day, OpStart(op), OpEnd(op)) :
        LET b == GapEnd(day, a, OpEnd(op))
        IN  /\ b - a < 2 * MinutesPerHour
            /\ NoUnfilledRecordIn(day, a, b)

AllBlocksCovered ==
    \A d \in 1..Len(hours_of_operation) :
        \A o \in 1..Len(hours_of_operation[d].ops) :
            BlockCovered(hours_of_operation[d].day, hours_of_operation[d].ops[o])

\* the blocks carved so far in the free slot follow each other from its
\* start up to the cursor
TiledUpToCursor ==
    InCarvingLoop =>
        /\ GapStarts(cur_day, free_slots[1][1], cur) = {}
        /\ \A i \in DayEntries(cur_day) :
              overlaps(ShiftStart(i), ShiftEnd(i), free_slots[1][1], free_slots[1][2]) =>
                  /\ free_slots[1][1] <= ShiftStart(i)
                  /\ ShiftEnd(i) <= cur

\* C29 as stated: after a run every instant of an operating-hours block is
\* covered by an entry of the day, except in free gaps shorter than 2h, which
\* get neither an entry nor an unfilled_shifts record, and the blocks carved
\* in a free slot tile it.
OperatingHoursCovered ==
    /\ Returned => AllBlocksCovered
    /\ TiledUpToCursor

\* C29: the same for a run on a roster that is not empty.
OperatingHoursCoveredForRoster ==
    /\ (Returned /\ workers # <<>>) => AllBlocksCovered
    /\ TiledUpToCursor

\* a returned schedule of a roster in which one block keeps a gap under 2h
\* and a free slot was carved into blocks
OperatingHoursCoveredWitness ==
    /\ Returned
    /\ workers # <<>>
    /\ \E d \in 1..Len(hours_of_operation) :
          \E o \in 1..Len(hours_of_operation[d].ops) :
             GapStarts(hours_of_operation[d].day,
                       OpStart(hours_of_operation[d].ops[o]),
                       OpEnd(hours_of_operation[d].ops[o])) # {}
    /\ \E i, j \in 1..Len(schedule) :
          /\ ~schedule[i].is_work_study /\ ~schedule[j].is_work_study
          /\ schedule[i].day = schedule[j].day
          /\ ShiftStart(j) = ShiftEnd(i)

\* the documents of the two worker collections of a workplace that hold a
\* worker: those add_worker stored and delete_worker did not remove
WorkerDocIds(id) ==
    (DOMAIN Docs(nested, id) \cup DOMAIN Docs(flat, id)) \cap {AutoIds[i] : i \in DOMAIN AutoIds}

ReturnedIds == {returned[i].id : i \in 1..Len(returned)}

\* C30: get_workers returns exactly one record per worker added and not yet
\* deleted, and never the '_metadata' document of set_workplace nor the
\* 'hours_of_operation' or 'current_schedule' documents of the flat
\* collection.
GetWorkersReturnsOnlyWorkers ==
    (call.op = "get_workers" /\ ~Refused(call.workplace_id)) =>
        /\ ReturnedIds \cap {MetadataId, HoursDocId, CurrentScheduleId} = {}
        /\ ReturnedIds = WorkerDocIds(TargetWorkplace(call.workplace_id))
        /\ Cardinality(ReturnedIds) = Len(returned)

====
